---- MODULE Spec2Model ----
(***************************************************************************)
(* Product-image resolution pipeline of the Mirror app.                    *)
(*   skin flow: src/src/utils/skinAnalysis.ts  (processGeminiRecommendations, *)
(*              downloadProductImage, removeImageBackground,               *)
(*              checkServerHealth)                                         *)
(*   hair flow: src/unnamed/part_007 (processRecommendations,              *)
(*              findProductImageFallback, downloadAndProcessImage)         *)
(* JavaScript runs one callback at a time, so everything between two       *)
(* awaits is one atomic step; every awaited network or file call is a      *)
(* control point (pc) whose outcome the environment chooses.               *)
(***************************************************************************)
EXTENDS Integers, Sequences, FiniteSets, TLC

VARIABLES
  BACKGROUND_REMOVAL_AVAILABLE, \* module-level flag of skinAnalysis.ts
  mode,                \* which orchestrator is running: "none", "skin", "hair"
  pc,                  \* control point of the running orchestrator
  recommendations,     \* the input array of the running batch
  i,                   \* 1-based index of the product being processed
  result,              \* skin: { cleansers, moisturizers, treatments }
  processedRecommendations, \* hair: the flat output list
  productCount,        \* skin counter
  successCount,        \* skin counter
  formattedProduct,    \* the record being built for product i
  directImageUrl,      \* skin: downloadProductImage's local; hair: imageUrl
  t,                   \* history of the calls issued for product i
  droppedCount,        \* history: products of this batch left out of the output
  tripped,             \* history: removeImageBackground saw a connection failure,
                       \*          no successful probe since
  runFailed,           \* history: a remove-background POST of this batch failed at
                       \*          connection level, no successful probe since
  event,               \* history: the last step and its outcome
  returned,            \* what performSkinAnalysis / performHairAnalysis last returned
  healthAwaited,       \* history: the outcome of the probe LoadingScreen awaited
                       \*          for the skin analysis that is starting
  now,                 \* the value Date.now() returns
  files,               \* the paths that exist under products/
  paths,               \* history: the paths the persistence calls returned
  searchPage,          \* the answer to the retailer search GET
  searchResult,        \* what searchProductOnLookFantastic returned for it
  extractPage,         \* the answer to an image extractor's GET
  extractResult,       \* which extractor ran on it and what it returned
  responseText,        \* the argument of parseGeminiResponse
  parsed,              \* what parseGeminiResponse returned for it
  bookmarks,           \* backend: the bookmarks array of the user's stored document
  docVersion,          \* backend: the stored document's version (__v)
  requests,            \* backend: the bookmark requests being handled
  bookmarkedProducts,  \* results screen: the keys whose local flag is true
  isLoading,           \* results screen: the flag that disables the bookmark buttons
  calls,               \* results screen: the state of each load / toggle call
  server,              \* the backend server:
                       \*   dbConnected  app.locals.dbConnected
                       \*   listening    app.listen has been called
                       \*   dbUp         whether MongoDB can be reached now
                       \*   connects     history: the calls of connectDB
                       \*   response     history: the last request and its answer
  auth                 \* AuthContext and the token store:
                       \*   user         the context user
                       \*   isLoading    the context's isLoading
                       \*   tokenStored  AsyncStorage holds an item under TOKEN_KEY
                       \*   check, logoutPc, loginPc  the running checkUserStatus,
                       \*                logout and login
                       \*   event        history: the call completed last

vars == << BACKGROUND_REMOVAL_AVAILABLE, mode, pc, recommendations, i, result,
           processedRecommendations, productCount, successCount,
           formattedProduct, directImageUrl, t, droppedCount, tripped, runFailed,
           event, returned, healthAwaited, now, files, paths, searchPage, searchResult,
           extractPage, extractResult, responseText, parsed,
           bookmarks, docVersion, requests, bookmarkedProducts, isLoading, calls,
           server, auth >>

\* The state of the file-naming steps and of the retailer search, which the
\* steps of the orchestrators leave alone.
pipelineVars == << BACKGROUND_REMOVAL_AVAILABLE, mode, pc, recommendations, i, result,
                   processedRecommendations, productCount, successCount,
                   formattedProduct, directImageUrl, t, droppedCount, tripped,
                   runFailed, event, returned, healthAwaited >>
persistVars == << now, files, paths >>
searchVars == << searchPage, searchResult >>
extractVars == << extractPage, extractResult >>
\* The state outside the orchestrators, the file naming and the retailer search.
parseVars == << responseText, parsed >>
backendVars == << bookmarks, docVersion, requests >>
clientVars == << bookmarkedProducts, isLoading, calls >>
\* The state of the components that came after the bookmark controller.
serverVars == << server >>
authVars == << auth >>
restVars == << bookmarkedProducts, isLoading, calls, server, auth >>
auxVars == << extractPage, extractResult, responseText, parsed,
             bookmarks, docVersion, requests, bookmarkedProducts, isLoading, calls,
             server, auth >>

\* Longest batch explored.
MaxBatch == 2
\* Most bookmark requests the backend handles in one run.
MaxRequests == 2

(***************************************************************************)
(* URLs.  A URL is abstracted to what the code tests about it:             *)
(*   lf  : imageUrl.includes('lookfantastic.com')                          *)
(*   ext : imageUrl.match(/\.(jpg|jpeg|png|gif)$/)                         *)
(* kind says what the URL really designates.                               *)
(***************************************************************************)
NoUrl          == [kind |-> "none",  lf |-> FALSE, ext |-> FALSE, id |-> "null"]
CdnImageUrl    == [kind |-> "image", lf |-> FALSE, ext |-> TRUE,  id |-> "static.thcdn.com/a.jpg"]
LfImageUrl     == [kind |-> "image", lf |-> TRUE,  ext |-> FALSE, id |-> "lookfantastic.com/images?url=a"]
LfPageUrl      == [kind |-> "page",  lf |-> TRUE,  ext |-> FALSE, id |-> "lookfantastic.com/a.html"]
ScrapedImageUrl == [kind |-> "image", lf |-> FALSE, ext |-> TRUE, id |-> "static.thcdn.com/scraped.jpg"]
GoogleImageUrl == [kind |-> "image", lf |-> FALSE, ext |-> TRUE,  id |-> "example.com/found.jpg"]
PlaceholderUrl == [kind |-> "placeholder", lf |-> FALSE, ext |-> FALSE, id |-> "via.placeholder.com/300x300.png?text="]
PlaceholderString == [kind |-> "placeholder", lf |-> FALSE, ext |-> FALSE, id |-> "placeholder"]

\* localImage values.
NoLocalImage == [store |-> "none", from |-> NoUrl]
BgRemovedFile(url) == [store |-> "file:products/bg_removed_<ts>.png", from |-> url]
DownloadedFile(url) == [store |-> "file:products/product_<ts>.jpg", from |-> url]
Base64Payload(url) == [store |-> "base64", from |-> url]
RemoteUrl(url)     == [store |-> "remote", from |-> url]

\* product.category, abstracted to the substrings the code looks for after
\* lower-casing; a missing category contains none of them.
Category(c, m, r) == [clean |-> c, moistur |-> m, cream |-> r]

SkinProduct(img, u, pu, cat) ==
  [image_url |-> img, url |-> u, product_url |-> pu, category |-> cat, isNull |-> FALSE]

\* Representative recommendations of the Gemini response (skin).
SkinProducts ==
  { SkinProduct(CdnImageUrl, LfPageUrl, NoUrl, Category(TRUE, FALSE, FALSE)),
    SkinProduct(NoUrl, LfPageUrl, LfPageUrl, Category(FALSE, TRUE, FALSE)),
    SkinProduct(NoUrl, NoUrl, LfPageUrl, Category(TRUE, FALSE, TRUE)),
    SkinProduct(NoUrl, NoUrl, NoUrl, Category(FALSE, FALSE, FALSE)),
    SkinProduct(LfImageUrl, NoUrl, NoUrl, Category(FALSE, FALSE, TRUE)),
    SkinProduct(NoUrl, CdnImageUrl, NoUrl, Category(FALSE, FALSE, FALSE)) }

\* Hair recommendations: the Gemini prompt asks for no URL field, but the
\* parsed JSON may carry one, and an element may be null.
HairProduct(img, null) ==
  [image_url |-> img, url |-> NoUrl, product_url |-> NoUrl,
   category |-> Category(FALSE, FALSE, FALSE), isNull |-> null]

HairProducts ==
  { HairProduct(NoUrl, FALSE), HairProduct(CdnImageUrl, FALSE), HairProduct(NoUrl, TRUE) }

BatchesOf(S) == UNION { [1..n -> S] : n \in 0..MaxBatch }

\* What the recommendation source hands back: null for one of these faults,
\* or the parsed list.
SourceFaults == {"no API key", "request error", "unparsable"}
GeminiAnswers(S) ==
  [fault : SourceFaults, list : {<< >>}] \cup [fault : {"none"}, list : BatchesOf(S)]

\* The calls issued so far for the product being processed.
T0 == [pageGets |-> 0, searches |-> 0, pages |-> 0, googles |-> 0,
       bgCalls |-> 0, bgPosts |-> 0, downloads |-> 0,
       bgArg |-> NoUrl, dlArg |-> NoUrl,
       scrape |-> "notInvoked", bg |-> "none", status |-> "pending",
       payload |-> "none", write |-> "none", file |-> "none", refused |-> FALSE]

EmptyResult == [cleansers |-> << >>, moisturizers |-> << >>, treatments |-> << >>]
NoProduct == [id |-> 0, image |-> NoUrl, url |-> NoUrl, localImage |-> NoLocalImage,
              bucket |-> "none", idx |-> 0]
NoEvent == [op |-> "init", out |-> "none"]
NoPage == [status |-> "none", links |-> << >>]
NoResult == [base |-> "none", segs |-> << >>]
NoImagePage == [status |-> "none", images |-> << >>]
NoImageUrl == [name |-> "null", thcdn |-> FALSE, large |-> FALSE, ext |-> FALSE,
               words |-> {}, after |-> ""]
NoExtract == [by |-> "none", url |-> NoImageUrl]
BookmarkKey(category, productId) == [category |-> category, productId |-> productId]
NoCheck == [pc |-> "mount", isAuth |-> "none", fetched |-> "none", removed |-> "none"]
NoAuthEvent == [op |-> "none", isAuth |-> "none", fetched |-> "none", removed |-> "none"]
NoResponse == [method |-> "none", path |-> "", body |-> "none", db |-> "undefined",
               status |-> 0, by |-> "none"]
NoRequest == [op |-> "none", pc |-> "idle", key |-> BookmarkKey("", 0),
              doc |-> << >>, version |-> 0, status |-> 0]
NotCalled == [kind |-> "not called", elements |-> << >>]
NoReturn == [by |-> "none", kind |-> "none", cause |-> "none", input |-> 0, total |-> 0]
PendingReturn(by) == [NoReturn EXCEPT !.by = by, !.kind = "pending"]

(***************************************************************************)
(* Pure helpers of skinAnalysis.ts                                         *)
(***************************************************************************)
\* Variant: one base for every type.
generateUniqueId_OneBase(type, index) == 1000 + index

generateUniqueId(type, index) ==
  IF type = "cleanser" THEN 1000 + index
  ELSE IF type = "moisturizer" THEN 2000 + index
  ELSE IF type = "treatment" THEN 3000 + index
  ELSE 9000 + index

\* resolvedCategory.slice(0, -1)
Singular(bucket) ==
  CASE bucket = "cleansers" -> "cleanser"
    [] bucket = "moisturizers" -> "moisturizer"
    [] bucket = "treatments" -> "treatment"

\* Variant: 'cream' is looked for before 'clean'.
ResolvedCategory_CreamFirst(category) ==
  IF category.moistur \/ category.cream THEN "moisturizers"
  ELSE IF category.clean THEN "cleansers"
  ELSE "treatments"

ResolvedCategory(category) ==
  IF category.clean THEN "cleansers"
  ELSE IF category.moistur \/ category.cream THEN "moisturizers"
  ELSE "treatments"

findImageForProduct(product) ==
  IF product.url # NoUrl THEN product.url
  ELSE IF product.product_url # NoUrl THEN product.product_url
  ELSE PlaceholderUrl

\* Variant: image_url is not consulted.
ImageSource_IgnoreImageUrl(product) == findImageForProduct(product)

\* product.image_url || findImageForProduct(product)
ImageSource(product) ==
  IF product.image_url # NoUrl THEN product.image_url ELSE findImageForProduct(product)

\* imageUrl.includes('lookfantastic.com') && !imageUrl.match(/\.(jpg|jpeg|png|gif)$/)
IsProductPage(url) == url.lf /\ ~url.ext

ConnectionErrors == {"ECONNREFUSED", "ECONNABORTED", "Network Error"}

\* Variant: only a refused connection counts.
IsConnectionError_RefusedOnly(err) == err = "ECONNREFUSED"

\* Variant: every rejected request counts.
IsConnectionError_AnyRejection(err) == err \in ConnectionErrors \cup {"HTTP 500"}

\* axios.isAxiosError(error) && (code === 'ECONNREFUSED' || code === 'ECONNABORTED'
\*   || message.includes('Network Error'))
IsConnectionError(err) == err \in ConnectionErrors

\* Outcomes of the POST to /remove-background, as axios reports them:
\* a 2xx answer resolves, anything else rejects.
HttpFailures == {"200 without success", "HTTP 500"}
PostOutcomes == {"200 success"} \cup HttpFailures \cup ConnectionErrors

\* response.data.base64Image: raw base64, or a data URI.
RawBase64 == "iVBORw0KGgo="
DataUriImage == "data:image/png;base64,iVBORw0KGgo="
Base64Images == {RawBase64, DataUriImage}

\* Variant: the payload is written as received.
StripDataUri_AsReceived(base64Image) == base64Image

\* base64Image.replace(/^data:image\/\w+;base64,/, '')
StripDataUri(base64Image) ==
  IF base64Image = DataUriImage THEN RawBase64 ELSE base64Image

\* Outcomes of makeDirectoryAsync followed by writeAsStringAsync, and of
\* makeDirectoryAsync followed by downloadAsync.  A rejected makeDirectoryAsync
\* is swallowed by .catch(() => {}), so the second call is made either way;
\* when both fail the outcome is that of the second call.
WrittenOutcomes == {"written", "mkdir failed, written"}
WriteOutcomes == WrittenOutcomes \cup {"write failed"}
DownloadedOutcomes == {"downloaded", "mkdir failed, downloaded"}
DownloadOutcomes == DownloadedOutcomes \cup {"download failed"}

\* Outcomes of GET /health.
HealthOutcomes == {"200", "HTTP 500", "ECONNREFUSED"}

Init ==
  /\ BACKGROUND_REMOVAL_AVAILABLE = TRUE
  /\ mode = "none"
  /\ pc = "idle"
  /\ recommendations = << >>
  /\ i = 0
  /\ result = EmptyResult
  /\ processedRecommendations = << >>
  /\ productCount = 0
  /\ successCount = 0
  /\ formattedProduct = NoProduct
  /\ directImageUrl = NoUrl
  /\ t = T0
  /\ droppedCount = 0
  /\ tripped = FALSE
  /\ runFailed = FALSE
  /\ event = NoEvent
  /\ returned = NoReturn
  /\ healthAwaited = "none"
  /\ now = 0
  /\ files = {}
  /\ paths = << >>
  /\ searchPage = NoPage
  /\ searchResult = NoResult
  /\ extractPage = NoImagePage
  /\ extractResult = NoExtract
  /\ responseText = << >>
  /\ parsed = NotCalled
  /\ bookmarks = << >>
  /\ docVersion = 0
  /\ requests = [r \in 1..MaxRequests |-> NoRequest]
  /\ bookmarkedProducts = {}
  /\ isLoading = FALSE
  /\ calls = [c \in 1..MaxRequests |-> "idle"]
  /\ server = [dbConnected |-> "undefined", listening |-> FALSE, dbUp |-> TRUE,
               connects |-> 0, response |-> NoResponse]
  /\ auth = [user |-> "null", isLoading |-> TRUE, tokenStored |-> FALSE,
             check |-> NoCheck, logoutPc |-> "idle", loginPc |-> "idle",
             event |-> NoAuthEvent]

(***************************************************************************)
(* checkServerHealth (skinAnalysis.ts): the flag is written when the GET   *)
(* completes.  It is awaited by LoadingScreen before a skin batch and      *)
(* fired without await by initializeBackgroundRemoval at app start, so it  *)
(* may complete at any await point.                                        *)
(***************************************************************************)
\* Variant: a completed probe always marks the service available.
checkServerHealth_AlwaysAvailable(outcome) ==
  /\ UNCHANGED << returned, healthAwaited, persistVars, searchVars, auxVars >>
  /\ BACKGROUND_REMOVAL_AVAILABLE' = TRUE
  /\ tripped' = IF outcome = "200" THEN FALSE ELSE tripped
  /\ runFailed' = IF outcome = "200" THEN FALSE ELSE runFailed
  /\ event' = [op |-> "checkServerHealth", out |-> outcome]
  /\ UNCHANGED << mode, pc, recommendations, i, result, processedRecommendations,
                  productCount, successCount, formattedProduct, directImageUrl,
                  t, droppedCount >>

\* Variant: the awaited probe's answer is read but the flag is left as it was.
processFacePhoto_FlagUntouched(outcome) ==
  /\ pc = "idle" /\ healthAwaited = "none"
  /\ healthAwaited' = outcome
  /\ event' = [op |-> "checkServerHealth", out |-> outcome]
  /\ UNCHANGED << BACKGROUND_REMOVAL_AVAILABLE, tripped, runFailed,
                  mode, pc, recommendations, i, result, processedRecommendations,
                  productCount, successCount, formattedProduct, directImageUrl,
                  t, droppedCount, returned, persistVars, searchVars, auxVars >>

\* processFacePhoto of LoadingScreen: await checkServerHealth(), then
\* performSkinAnalysis.  This is the completion of that awaited probe.
processFacePhoto(outcome) ==
  /\ pc = "idle" /\ healthAwaited = "none"
  /\ healthAwaited' = outcome
  /\ BACKGROUND_REMOVAL_AVAILABLE' = (outcome = "200")
  /\ tripped' = IF outcome = "200" THEN FALSE ELSE tripped
  /\ runFailed' = IF outcome = "200" THEN FALSE ELSE runFailed
  /\ event' = [op |-> "checkServerHealth", out |-> outcome]
  /\ UNCHANGED << mode, pc, recommendations, i, result, processedRecommendations,
                  productCount, successCount, formattedProduct, directImageUrl,
                  t, droppedCount, returned, persistVars, searchVars, auxVars >>

checkServerHealth(outcome) ==
  /\ UNCHANGED << returned, healthAwaited, persistVars, searchVars, auxVars >>
  /\ BACKGROUND_REMOVAL_AVAILABLE' = (outcome = "200")
  /\ tripped' = IF outcome = "200" THEN FALSE ELSE tripped
  /\ runFailed' = IF outcome = "200" THEN FALSE ELSE runFailed
  /\ event' = [op |-> "checkServerHealth", out |-> outcome]
  /\ UNCHANGED << mode, pc, recommendations, i, result, processedRecommendations,
                  productCount, successCount, formattedProduct, directImageUrl,
                  t, droppedCount >>

(***************************************************************************)
(* processGeminiRecommendations                                            *)
(***************************************************************************)
StartSkin(recs) ==
  /\ returned' = PendingReturn("performSkinAnalysis")
  /\ UNCHANGED << healthAwaited, persistVars, searchVars, auxVars >>
  /\ pc = "idle"
  /\ mode' = "skin"
  /\ recommendations' = recs
  /\ result' = EmptyResult
  /\ processedRecommendations' = << >>
  /\ productCount' = 0
  /\ successCount' = 0
  /\ droppedCount' = 0
  /\ formattedProduct' = NoProduct
  /\ directImageUrl' = NoUrl
  /\ t' = T0
  /\ i' = 1
  /\ pc' = IF Len(recs) = 0 THEN "done" ELSE "loop"
  /\ event' = [op |-> "processGeminiRecommendations", out |-> "start"]
  /\ runFailed' = FALSE
  /\ UNCHANGED << BACKGROUND_REMOVAL_AVAILABLE, tripped >>

\* performSkinAnalysis from the answer of the recommendation source on:
\* geminiRecs && geminiRecs.length > 0 ? processGeminiRecommendations(geminiRecs)
\*                                     : getHardcodedRecommendations()
performSkinAnalysis(answer) ==
  /\ pc = "idle" /\ healthAwaited # "none"
  /\ IF answer.fault = "none" /\ Len(answer.list) > 0
       THEN StartSkin(answer.list)
       ELSE /\ returned' = [NoReturn EXCEPT
                              !.by = "performSkinAnalysis", !.kind = "hardcoded",
                              !.cause = IF answer.fault = "none" THEN "empty list"
                                        ELSE answer.fault]
            /\ event' = [op |-> "performSkinAnalysis", out |-> "hardcoded"]
            /\ healthAwaited' = "none"
            /\ UNCHANGED << BACKGROUND_REMOVAL_AVAILABLE, mode, pc, recommendations, i,
                            result, processedRecommendations, productCount,
                            successCount, formattedProduct, directImageUrl, t,
                            droppedCount, tripped, runFailed, persistVars, searchVars, auxVars >>

\* Variant: the flag is not consulted.
removeImageBackgroundCall_NoFlag(url, tr) ==
  /\ directImageUrl' = url
  /\ pc' = "awaitPost"
  /\ t' = [tr EXCEPT !.bgCalls = @ + 1, !.bgArg = url, !.bgPosts = @ + 1]

\* The synchronous head of removeImageBackground(url), reached from
\* downloadProductImage; tr is the product's call history so far.
removeImageBackgroundCall(url, tr) ==
  /\ directImageUrl' = url
  /\ IF ~BACKGROUND_REMOVAL_AVAILABLE
       THEN \* returns null at once; downloadProductImage goes on to downloadAsync
            /\ pc' = "awaitDownload"
            /\ t' = [tr EXCEPT !.bgCalls = @ + 1, !.bgArg = url, !.bg = "skipped",
                               !.downloads = @ + 1, !.dlArg = url]
       ELSE /\ pc' = "awaitPost"
            /\ t' = [tr EXCEPT !.bgCalls = @ + 1, !.bgArg = url, !.bgPosts = @ + 1]

\* Top of the for loop up to the first await of downloadProductImage.
SkinIterate ==
  /\ UNCHANGED << returned, persistVars, searchVars, auxVars >>
  /\ healthAwaited' = "none"
  /\ mode = "skin" /\ pc = "loop" /\ i <= Len(recommendations)
  /\ LET product == recommendations[i]
         resolvedCategory == ResolvedCategory(product.category)
         fp == [id |-> generateUniqueId(Singular(resolvedCategory),
                                        Len(result[resolvedCategory]) + 1),
                image |-> ImageSource(product),
                url |-> product.url,
                localImage |-> NoLocalImage,
                bucket |-> resolvedCategory,
                idx |-> i]
     IN /\ productCount' = productCount + 1
        /\ formattedProduct' = fp
        /\ IF IsProductPage(fp.image)
             THEN /\ pc' = "awaitPage"
                  /\ directImageUrl' = fp.image
                  /\ t' = [T0 EXCEPT !.pageGets = 1]
             ELSE removeImageBackgroundCall(fp.image, T0)
  /\ event' = [op |-> "iterate", out |-> "skin"]
  /\ UNCHANGED << BACKGROUND_REMOVAL_AVAILABLE, mode, recommendations, i, result,
                  processedRecommendations, successCount, droppedCount, tripped, runFailed >>

\* The product-page GET of downloadProductImage returns.
PageResponse(outcome) ==
  /\ UNCHANGED << returned, healthAwaited, persistVars, searchVars, auxVars >>
  /\ mode = "skin" /\ pc = "awaitPage"
  /\ LET found == outcome = "image found"
         url == IF found THEN ScrapedImageUrl ELSE directImageUrl
     IN removeImageBackgroundCall(url,
          [t EXCEPT !.scrape = IF found THEN "found" ELSE "null"])
  /\ event' = [op |-> "pageGet", out |-> outcome]
  /\ UNCHANGED << BACKGROUND_REMOVAL_AVAILABLE, mode, recommendations, i, result,
                  processedRecommendations, productCount, successCount,
                  formattedProduct, droppedCount, tripped, runFailed >>

\* Variant: the product is pushed whether or not an image was obtained.
FinishSkinProduct_AlwaysPush(localImage, tr) ==
  /\ result' = [result EXCEPT ![formattedProduct.bucket] =
                  Append(@, [formattedProduct EXCEPT !.localImage = localImage])]
  /\ successCount' = successCount + 1
  /\ droppedCount' = droppedCount
  /\ formattedProduct' = [formattedProduct EXCEPT !.localImage = localImage]
  /\ t' = [tr EXCEPT !.status = "resolved"]
  /\ i' = i + 1
  /\ pc' = "loop"

\* Variant: the success counter is not advanced.
FinishSkinProduct_NoCount(localImage, tr) ==
  /\ IF localImage # NoLocalImage
       THEN /\ result' = [result EXCEPT ![formattedProduct.bucket] =
                            Append(@, [formattedProduct EXCEPT !.localImage = localImage])]
            /\ formattedProduct' = [formattedProduct EXCEPT !.localImage = localImage]
            /\ t' = [tr EXCEPT !.status = "resolved"]
            /\ UNCHANGED << successCount, droppedCount >>
       ELSE /\ droppedCount' = droppedCount + 1
            /\ t' = [tr EXCEPT !.status = "dropped"]
            /\ UNCHANGED << result, successCount, formattedProduct >>
  /\ i' = i + 1
  /\ pc' = "loop"

\* End of one loop iteration: the product is pushed iff localImage is set.
FinishSkinProduct(localImage, tr) ==
  /\ IF localImage # NoLocalImage
       THEN /\ result' = [result EXCEPT ![formattedProduct.bucket] =
                            Append(@, [formattedProduct EXCEPT !.localImage = localImage])]
            /\ successCount' = successCount + 1
            /\ droppedCount' = droppedCount
            /\ formattedProduct' = [formattedProduct EXCEPT !.localImage = localImage]
            /\ t' = [tr EXCEPT !.status = "resolved"]
       ELSE /\ droppedCount' = droppedCount + 1
            /\ t' = [tr EXCEPT !.status = "dropped"]
            /\ UNCHANGED << result, successCount, formattedProduct >>
  /\ i' = i + 1
  /\ pc' = "loop"

\* Variant: a POST that failed at HTTP level is issued a second time.
PostResponse_RetryOnce(outcome) ==
  /\ UNCHANGED << returned, healthAwaited, persistVars, searchVars, auxVars >>
  /\ mode = "skin" /\ pc = "awaitPost"
  /\ event' = [op |-> "bgPost", out |-> outcome]
  /\ IF outcome = "200 success"
       THEN /\ pc' = "awaitWrite"
            /\ \E base64Image \in Base64Images : t' = [t EXCEPT !.payload = base64Image]
            /\ UNCHANGED << BACKGROUND_REMOVAL_AVAILABLE, tripped, runFailed, i,
                            result, successCount, droppedCount, formattedProduct >>
       ELSE IF outcome \in HttpFailures /\ t.bgPosts < 2
         THEN /\ pc' = "awaitPost"
              /\ t' = [t EXCEPT !.bgPosts = @ + 1]
              /\ UNCHANGED << BACKGROUND_REMOVAL_AVAILABLE, tripped, runFailed, i,
                              result, successCount, droppedCount, formattedProduct >>
         ELSE /\ BACKGROUND_REMOVAL_AVAILABLE' =
                   IF IsConnectionError(outcome) THEN FALSE ELSE BACKGROUND_REMOVAL_AVAILABLE
              /\ tripped' = IF outcome \in ConnectionErrors THEN TRUE ELSE tripped
              /\ runFailed' = IF outcome \in ConnectionErrors THEN TRUE ELSE runFailed
              /\ pc' = "awaitDownload"
              /\ t' = [t EXCEPT !.bg = "failed", !.downloads = @ + 1, !.dlArg = directImageUrl,
                               !.refused = outcome \in ConnectionErrors]
              /\ UNCHANGED << i, result, successCount, droppedCount, formattedProduct >>
  /\ UNCHANGED << mode, recommendations, processedRecommendations, productCount,
                  directImageUrl >>

\* The POST of removeImageBackground returns or throws.
PostResponse(outcome) ==
  /\ UNCHANGED << returned, healthAwaited, persistVars, searchVars, auxVars >>
  /\ mode = "skin" /\ pc = "awaitPost"
  /\ event' = [op |-> "bgPost", out |-> outcome]
  /\ IF outcome = "200 success"
       THEN /\ pc' = "awaitWrite"
            /\ \E base64Image \in Base64Images : t' = [t EXCEPT !.payload = base64Image]
            /\ UNCHANGED << BACKGROUND_REMOVAL_AVAILABLE, tripped, runFailed, i,
                            result, successCount, droppedCount, formattedProduct >>
       ELSE /\ BACKGROUND_REMOVAL_AVAILABLE' =
                 IF IsConnectionError(outcome) THEN FALSE ELSE BACKGROUND_REMOVAL_AVAILABLE
            /\ tripped' = IF outcome \in ConnectionErrors THEN TRUE ELSE tripped
            /\ runFailed' = IF outcome \in ConnectionErrors THEN TRUE ELSE runFailed
            /\ pc' = "awaitDownload"
            /\ t' = [t EXCEPT !.bg = "failed", !.downloads = @ + 1, !.dlArg = directImageUrl,
                               !.refused = outcome \in ConnectionErrors]
            /\ UNCHANGED << i, result, successCount, droppedCount, formattedProduct >>
  /\ UNCHANGED << mode, recommendations, processedRecommendations, productCount,
                  directImageUrl >>

\* Variant: a failed write ends the resolution without the direct download.
WriteResponse_NoFallback(outcome) ==
  /\ UNCHANGED << returned, healthAwaited, persistVars, searchVars, auxVars >>
  /\ mode = "skin" /\ pc = "awaitWrite"
  /\ event' = [op |-> "writeFile", out |-> outcome]
  /\ IF outcome \in WrittenOutcomes
       THEN FinishSkinProduct(BgRemovedFile(directImageUrl),
                              [t EXCEPT !.bg = "ok", !.write = "ok",
                                        !.file = StripDataUri(t.payload)])
       ELSE FinishSkinProduct(NoLocalImage, [t EXCEPT !.bg = "failed", !.write = "failed"])
  /\ UNCHANGED << BACKGROUND_REMOVAL_AVAILABLE, tripped, runFailed, mode,
                  recommendations, processedRecommendations, productCount,
                  directImageUrl >>

\* Variant: a rejected makeDirectoryAsync is not swallowed.
WriteResponse_MkdirThrows(outcome) ==
  /\ UNCHANGED << returned, healthAwaited, persistVars, searchVars, auxVars >>
  /\ mode = "skin" /\ pc = "awaitWrite"
  /\ event' = [op |-> "writeFile", out |-> outcome]
  /\ IF outcome = "written"
       THEN FinishSkinProduct(BgRemovedFile(directImageUrl),
                              [t EXCEPT !.bg = "ok", !.write = "ok",
                                        !.file = StripDataUri(t.payload)])
       ELSE /\ pc' = "awaitDownload"
            /\ t' = [t EXCEPT !.bg = "failed", !.write = "failed",
                               !.downloads = @ + 1, !.dlArg = directImageUrl]
            /\ UNCHANGED << i, result, successCount, droppedCount, formattedProduct >>
  /\ UNCHANGED << BACKGROUND_REMOVAL_AVAILABLE, tripped, runFailed, mode,
                  recommendations, processedRecommendations, productCount,
                  directImageUrl >>

\* writeAsStringAsync of the background-removed payload returns or throws.
WriteResponse(outcome) ==
  /\ UNCHANGED << returned, healthAwaited, persistVars, searchVars, auxVars >>
  /\ mode = "skin" /\ pc = "awaitWrite"
  /\ event' = [op |-> "writeFile", out |-> outcome]
  /\ IF outcome \in WrittenOutcomes
       THEN FinishSkinProduct(BgRemovedFile(directImageUrl),
                              [t EXCEPT !.bg = "ok", !.write = "ok",
                                        !.file = StripDataUri(t.payload)])
       ELSE \* a file-system error is no axios error: caught, null returned
            /\ pc' = "awaitDownload"
            /\ t' = [t EXCEPT !.bg = "failed", !.write = "failed",
                               !.downloads = @ + 1, !.dlArg = directImageUrl]
            /\ UNCHANGED << i, result, successCount, droppedCount, formattedProduct >>
  /\ UNCHANGED << BACKGROUND_REMOVAL_AVAILABLE, tripped, runFailed, mode,
                  recommendations, processedRecommendations, productCount,
                  directImageUrl >>

\* Variant: a rejected download is not caught and ends the loop.
DownloadResponse_Throws(outcome) ==
  /\ UNCHANGED << returned, healthAwaited, persistVars, searchVars, auxVars >>
  /\ mode = "skin" /\ pc = "awaitDownload"
  /\ event' = [op |-> "download", out |-> outcome]
  /\ IF outcome \in DownloadedOutcomes
       THEN FinishSkinProduct(DownloadedFile(directImageUrl),
                              [t EXCEPT !.file = "image bytes"])
       ELSE /\ pc' = "done"
            /\ droppedCount' = droppedCount + 1
            /\ t' = [t EXCEPT !.status = "dropped"]
            /\ UNCHANGED << i, result, successCount, formattedProduct >>
  /\ UNCHANGED << BACKGROUND_REMOVAL_AVAILABLE, tripped, runFailed, mode,
                  recommendations, processedRecommendations, productCount,
                  directImageUrl >>

\* Variant: a rejected download is awaited again until it succeeds.
DownloadResponse_RetryForever(outcome) ==
  /\ UNCHANGED << returned, healthAwaited, persistVars, searchVars, auxVars >>
  /\ mode = "skin" /\ pc = "awaitDownload"
  /\ event' = [op |-> "download", out |-> outcome]
  /\ IF outcome \in DownloadedOutcomes
       THEN FinishSkinProduct(DownloadedFile(directImageUrl),
                              [t EXCEPT !.file = "image bytes"])
       ELSE UNCHANGED << pc, t, i, result, successCount, droppedCount, formattedProduct >>
  /\ UNCHANGED << BACKGROUND_REMOVAL_AVAILABLE, tripped, runFailed, mode,
                  recommendations, processedRecommendations, productCount,
                  directImageUrl >>

\* FileSystem.downloadAsync returns or throws.
DownloadResponse(outcome) ==
  /\ UNCHANGED << returned, healthAwaited, persistVars, searchVars, auxVars >>
  /\ mode = "skin" /\ pc = "awaitDownload"
  /\ event' = [op |-> "download", out |-> outcome]
  /\ IF outcome \in DownloadedOutcomes
       THEN FinishSkinProduct(DownloadedFile(directImageUrl),
                              [t EXCEPT !.file = "image bytes"])
       ELSE FinishSkinProduct(NoLocalImage, t)
  /\ UNCHANGED << BACKGROUND_REMOVAL_AVAILABLE, tripped, runFailed, mode,
                  recommendations, processedRecommendations, productCount,
                  directImageUrl >>

\* The loop is over: the orchestrator returns its output.
Return ==
  /\ UNCHANGED << returned, healthAwaited, persistVars, searchVars, auxVars >>
  /\ pc = "loop" /\ i > Len(recommendations)
  /\ pc' = "done"
  /\ event' = [op |-> "return", out |-> mode]
  /\ UNCHANGED << BACKGROUND_REMOVAL_AVAILABLE, mode, recommendations, i, result,
                  processedRecommendations, productCount, successCount,
                  formattedProduct, directImageUrl, t, droppedCount, tripped, runFailed >>

\* Variant: a batch of which no product was resolved is answered with the
\* hardcoded set.
Finish_HardcodedWhenEmpty ==
  /\ pc = "done"
  /\ pc' = "idle"
  /\ mode' = "none"
  /\ recommendations' = << >>
  /\ i' = 0
  /\ result' = EmptyResult
  /\ processedRecommendations' = << >>
  /\ productCount' = 0
  /\ successCount' = 0
  /\ droppedCount' = 0
  /\ formattedProduct' = NoProduct
  /\ directImageUrl' = NoUrl
  /\ t' = T0
  /\ event' = [op |-> "finish", out |-> mode]
  /\ runFailed' = FALSE
  /\ UNCHANGED << BACKGROUND_REMOVAL_AVAILABLE, tripped >>
  /\ returned' = IF Len(result.cleansers) + Len(result.moisturizers)
                      + Len(result.treatments) + Len(processedRecommendations) = 0
                   THEN [returned EXCEPT !.kind = "hardcoded",
                                         !.cause = "no image resolved",
                                         !.input = Len(recommendations)]
                   ELSE [returned EXCEPT
                           !.kind = "processed",
                           !.input = Len(recommendations),
                           !.total = Len(result.cleansers) + Len(result.moisturizers)
                                     + Len(result.treatments)
                                     + Len(processedRecommendations)]
  /\ healthAwaited' = "none"
  /\ UNCHANGED << persistVars, searchVars, auxVars >>

\* The orchestrator's output is what performSkinAnalysis / performHairAnalysis
\* returns (skinAnalysis.ts:815, 829-832; part_007:632, 638-641); only the
\* module-level flag outlives the batch.
Finish ==
  /\ pc = "done"
  /\ pc' = "idle"
  /\ mode' = "none"
  /\ recommendations' = << >>
  /\ i' = 0
  /\ result' = EmptyResult
  /\ processedRecommendations' = << >>
  /\ productCount' = 0
  /\ successCount' = 0
  /\ droppedCount' = 0
  /\ formattedProduct' = NoProduct
  /\ directImageUrl' = NoUrl
  /\ t' = T0
  /\ event' = [op |-> "finish", out |-> mode]
  /\ runFailed' = FALSE
  /\ UNCHANGED << BACKGROUND_REMOVAL_AVAILABLE, tripped >>
  /\ returned' = [returned EXCEPT
                     !.kind = "processed",
                     !.input = Len(recommendations),
                     !.total = Len(result.cleansers) + Len(result.moisturizers)
                               + Len(result.treatments) + Len(processedRecommendations)]
  /\ healthAwaited' = "none"
  /\ UNCHANGED << persistVars, searchVars, auxVars >>

(***************************************************************************)
(* processRecommendations (hair)                                           *)
(***************************************************************************)
\* generateUniqueId of the hair module, called with the 0-based loop index.
hairGenerateUniqueId(index) == 3000 + index

StartHair(recs) ==
  /\ returned' = PendingReturn("performHairAnalysis")
  /\ UNCHANGED << healthAwaited, persistVars, searchVars, auxVars >>
  /\ pc = "idle"
  /\ mode' = "hair"
  /\ recommendations' = recs
  /\ result' = EmptyResult
  /\ processedRecommendations' = << >>
  /\ productCount' = 0
  /\ successCount' = 0
  /\ droppedCount' = 0
  /\ formattedProduct' = NoProduct
  /\ directImageUrl' = NoUrl
  /\ t' = T0
  /\ i' = 1
  /\ pc' = IF Len(recs) = 0 THEN "done" ELSE "loop"
  /\ event' = [op |-> "processRecommendations", out |-> "start"]
  /\ runFailed' = FALSE
  /\ UNCHANGED << BACKGROUND_REMOVAL_AVAILABLE, tripped >>

\* performHairAnalysis from the answer of the recommendation source on:
\* recommendations && recommendations.length > 0
\*   ? processRecommendations(recommendations) : getFallbackRecommendations()
performHairAnalysis(answer) ==
  /\ pc = "idle" /\ healthAwaited = "none"
  /\ IF answer.fault = "none" /\ Len(answer.list) > 0
       THEN StartHair(answer.list)
       ELSE /\ returned' = [NoReturn EXCEPT
                              !.by = "performHairAnalysis", !.kind = "hardcoded",
                              !.cause = IF answer.fault = "none" THEN "empty list"
                                        ELSE answer.fault]
            /\ event' = [op |-> "performHairAnalysis", out |-> "hardcoded"]
            /\ UNCHANGED healthAwaited
            /\ UNCHANGED << BACKGROUND_REMOVAL_AVAILABLE, mode, pc, recommendations, i,
                            result, processedRecommendations, productCount,
                            successCount, formattedProduct, directImageUrl, t,
                            droppedCount, tripped, runFailed, persistVars, searchVars, auxVars >>

\* Top of the for loop: generateUniqueId, then findProductImage ->
\* findProductImageFallback -> searchProductOnLookFantastic issues its GET.
\* A null element makes rec.name throw inside the try: the element is skipped.
HairIterate ==
  /\ UNCHANGED << returned, healthAwaited, persistVars, searchVars, auxVars >>
  /\ mode = "hair" /\ pc = "loop" /\ i <= Len(recommendations)
  /\ LET rec == recommendations[i]
     IN IF rec.isNull
          THEN /\ pc' = "loop"
               /\ i' = i + 1
               /\ droppedCount' = droppedCount + 1
               /\ formattedProduct' = NoProduct
               /\ t' = [T0 EXCEPT !.status = "dropped"]
          ELSE /\ pc' = "awaitSearch"
               /\ formattedProduct' = [NoProduct EXCEPT !.id = hairGenerateUniqueId(i - 1),
                                                         !.idx = i]
               /\ t' = [T0 EXCEPT !.searches = 1]
               /\ UNCHANGED << i, droppedCount >>
  /\ directImageUrl' = NoUrl
  /\ event' = [op |-> "iterate", out |-> "hair"]
  /\ UNCHANGED << BACKGROUND_REMOVAL_AVAILABLE, mode, recommendations, result,
                  processedRecommendations, productCount, successCount, tripped,
                  runFailed >>

\* Variant: the web image search is started alongside the product-page request.
SearchResponse_EagerWebSearch(outcome) ==
  /\ UNCHANGED << returned, healthAwaited, persistVars, searchVars, auxVars >>
  /\ mode = "hair" /\ pc = "awaitSearch"
  /\ IF outcome = "product found"
       THEN /\ pc' = "awaitProductPage"
            /\ t' = [t EXCEPT !.pages = @ + 1, !.googles = @ + 1]
       ELSE /\ pc' = "awaitGoogle"
            /\ t' = [t EXCEPT !.scrape = "null", !.googles = @ + 1]
  /\ event' = [op |-> "lfSearch", out |-> outcome]
  /\ UNCHANGED << BACKGROUND_REMOVAL_AVAILABLE, mode, recommendations, i, result,
                  processedRecommendations, productCount, successCount,
                  formattedProduct, directImageUrl, droppedCount, tripped, runFailed >>

\* searchProductOnLookFantastic returns a product URL or null.
SearchResponse(outcome) ==
  /\ UNCHANGED << returned, healthAwaited, persistVars, searchVars, auxVars >>
  /\ mode = "hair" /\ pc = "awaitSearch"
  /\ IF outcome = "product found"
       THEN /\ pc' = "awaitProductPage"
            /\ t' = [t EXCEPT !.pages = @ + 1]
       ELSE /\ pc' = "awaitGoogle"
            /\ t' = [t EXCEPT !.scrape = "null", !.googles = @ + 1]
  /\ event' = [op |-> "lfSearch", out |-> outcome]
  /\ UNCHANGED << BACKGROUND_REMOVAL_AVAILABLE, mode, recommendations, i, result,
                  processedRecommendations, productCount, successCount,
                  formattedProduct, directImageUrl, droppedCount, tripped, runFailed >>

\* The synchronous head of downloadAndProcessImage(imageUrl, id): the POST is
\* issued whatever happened before.
downloadAndProcessImageCall(url, productUrl, tr) ==
  /\ pc' = "awaitHairPost"
  /\ directImageUrl' = url
  /\ formattedProduct' = [formattedProduct EXCEPT !.url = productUrl]
  /\ t' = [tr EXCEPT !.bgCalls = @ + 1, !.bgArg = url, !.bgPosts = @ + 1]

\* Variant: a product without an image URL is left out.
FinishHairProduct_DropNoImage(imageUrl, localImage, tr) ==
  /\ IF imageUrl # NoUrl
       THEN LET processedRec == [formattedProduct EXCEPT !.image = imageUrl,
                                                        !.localImage = localImage,
                                                        !.bucket = "recommendations"]
            IN /\ processedRecommendations' = Append(processedRecommendations, processedRec)
               /\ formattedProduct' = processedRec
               /\ t' = [tr EXCEPT !.status = "emitted"]
       ELSE /\ t' = [tr EXCEPT !.status = "dropped"]
            /\ UNCHANGED << processedRecommendations, formattedProduct >>
  /\ i' = i + 1
  /\ pc' = "loop"

\* Variant: the processed product is put at the front of the output list.
FinishHairProduct_Prepend(imageUrl, localImage, tr) ==
  /\ LET processedRec == [formattedProduct EXCEPT
                            !.image = IF imageUrl # NoUrl THEN imageUrl
                                      ELSE PlaceholderString,
                            !.localImage = localImage,
                            !.bucket = "recommendations"]
     IN /\ processedRecommendations' = << processedRec >> \o processedRecommendations
        /\ formattedProduct' = processedRec
  /\ t' = [tr EXCEPT !.status = "emitted"]
  /\ i' = i + 1
  /\ pc' = "loop"

\* processedRecommendations.push(processedRec) at the end of the try block.
FinishHairProduct(imageUrl, localImage, tr) ==
  /\ LET processedRec == [formattedProduct EXCEPT
                            !.image = IF imageUrl # NoUrl THEN imageUrl
                                      ELSE PlaceholderString,
                            !.localImage = localImage,
                            !.bucket = "recommendations"]
     IN /\ processedRecommendations' = Append(processedRecommendations, processedRec)
        /\ formattedProduct' = processedRec
  /\ t' = [tr EXCEPT !.status = "emitted"]
  /\ i' = i + 1
  /\ pc' = "loop"

\* Variant: an empty product page ends the search without the web image search.
ProductPageResponse_NoFallback(outcome) ==
  /\ UNCHANGED << returned, healthAwaited, persistVars, searchVars, auxVars >>
  /\ mode = "hair" /\ pc = "awaitProductPage"
  /\ IF outcome = "image found"
       THEN /\ downloadAndProcessImageCall(ScrapedImageUrl, LfPageUrl,
                                           [t EXCEPT !.scrape = "found"])
            /\ UNCHANGED << i, processedRecommendations >>
       ELSE /\ FinishHairProduct(NoUrl, NoLocalImage, [t EXCEPT !.scrape = "null"])
            /\ UNCHANGED directImageUrl
  /\ event' = [op |-> "lfPage", out |-> outcome]
  /\ UNCHANGED << BACKGROUND_REMOVAL_AVAILABLE, mode, recommendations, result,
                  productCount, successCount, droppedCount, tripped, runFailed >>

\* getProductImageFromLookFantastic returns an image URL or null.
ProductPageResponse(outcome) ==
  /\ UNCHANGED << returned, healthAwaited, persistVars, searchVars, auxVars >>
  /\ mode = "hair" /\ pc = "awaitProductPage"
  /\ IF outcome = "image found"
       THEN /\ downloadAndProcessImageCall(ScrapedImageUrl, LfPageUrl,
                                           [t EXCEPT !.scrape = "found"])
       ELSE /\ pc' = "awaitGoogle"
            /\ t' = [t EXCEPT !.scrape = "null", !.googles = @ + 1]
            /\ UNCHANGED << formattedProduct, directImageUrl >>
  /\ event' = [op |-> "lfPage", out |-> outcome]
  /\ UNCHANGED << BACKGROUND_REMOVAL_AVAILABLE, mode, recommendations, i, result,
                  processedRecommendations, productCount, successCount,
                  droppedCount, tripped, runFailed >>

\* searchProductOnGoogle returns an image URL or null.
GoogleResponse(outcome) ==
  /\ UNCHANGED << returned, healthAwaited, persistVars, searchVars, auxVars >>
  /\ mode = "hair" /\ pc = "awaitGoogle"
  /\ IF outcome = "image found"
       THEN /\ downloadAndProcessImageCall(GoogleImageUrl, NoUrl, t)
            /\ UNCHANGED << i, processedRecommendations >>
       ELSE /\ FinishHairProduct(NoUrl, NoLocalImage, t)
            /\ UNCHANGED directImageUrl
  /\ event' = [op |-> "google", out |-> outcome]
  /\ UNCHANGED << BACKGROUND_REMOVAL_AVAILABLE, mode, recommendations, result,
                  productCount, successCount, droppedCount, tripped, runFailed >>

\* The POST of downloadAndProcessImage returns or throws; the hair module has
\* no availability flag.
HairPostResponse(outcome) ==
  /\ UNCHANGED << returned, healthAwaited, persistVars, searchVars, auxVars >>
  /\ mode = "hair" /\ pc = "awaitHairPost"
  /\ IF outcome = "200 success"
       THEN FinishHairProduct(directImageUrl, Base64Payload(directImageUrl),
                              [t EXCEPT !.bg = "ok"])
       ELSE FinishHairProduct(directImageUrl, RemoteUrl(directImageUrl),
                              [t EXCEPT !.bg = "failed"])
  /\ runFailed' = IF outcome \in ConnectionErrors THEN TRUE ELSE runFailed
  /\ event' = [op |-> "bgPost", out |-> outcome]
  /\ UNCHANGED << BACKGROUND_REMOVAL_AVAILABLE, mode, recommendations, result,
                  productCount, successCount, directImageUrl, droppedCount, tripped >>

ScrapeOutcomes == {"image found", "no image", "request failed"}

\* An analysis starts only while none runs: the guard pc = "idle" of
\* performSkinAnalysis and performHairAnalysis is repeated in front of the
\* choice of Gemini's answer.
Next ==
  \/ \E o \in HealthOutcomes : checkServerHealth(o)
  \/ \E o \in HealthOutcomes : processFacePhoto(o)
  \/ pc = "idle" /\ \E answer \in GeminiAnswers(SkinProducts) : performSkinAnalysis(answer)
  \/ SkinIterate
  \/ \E o \in ScrapeOutcomes : PageResponse(o)
  \/ \E o \in PostOutcomes : PostResponse(o)
  \/ \E o \in WriteOutcomes : WriteResponse(o)
  \/ \E o \in DownloadOutcomes : DownloadResponse(o)
  \/ pc = "idle" /\ \E answer \in GeminiAnswers(HairProducts) : performHairAnalysis(answer)
  \/ HairIterate
  \/ \E o \in {"product found", "no product", "request failed"} : SearchResponse(o)
  \/ \E o \in ScrapeOutcomes : ProductPageResponse(o)
  \/ \E o \in ScrapeOutcomes : GoogleResponse(o)
  \/ \E o \in PostOutcomes : HairPostResponse(o)
  \/ Return
  \/ Finish

Spec == Init /\ [][Next]_vars

(***************************************************************************)
(* File naming (skinAnalysis.ts).  Both persistence paths name their file  *)
(* after Date.now(), the wall clock in milliseconds; nothing else enters   *)
(* the name.  Between two readings the clock may or may not have advanced. *)
(***************************************************************************)
\* Largest clock reading and most persistence calls explored.
MaxClock == 2
MaxPersisted == 3

\* `${FileSystem.documentDirectory}products/bg_removed_${Date.now()}.png`
BgRemovedPath(ts) ==
  [directory |-> "products/", prefix |-> "bg_removed_", ts |-> ts, ext |-> ".png"]
\* `${FileSystem.documentDirectory}products/product_${Date.now()}.jpg`
ProductPath(ts) ==
  [directory |-> "products/", prefix |-> "product_", ts |-> ts, ext |-> ".jpg"]

\* Time passes.
Tick ==
  /\ now < MaxClock
  /\ now' = now + 1
  /\ UNCHANGED << files, paths, pipelineVars, searchVars, auxVars >>

\* The system clock is set back (time synchronisation, the user).
ClockSetBack ==
  /\ \E earlier \in 0..(now - 1) : now' = earlier
  /\ UNCHANGED << files, paths, pipelineVars, searchVars, auxVars >>

\* removeImageBackground after a successful POST: name the file, create the
\* directory, write the payload, return the path (null when the write fails).
persistBackgroundRemoved(outcome) ==
  /\ Len(paths) < MaxPersisted
  /\ LET imagePath == BgRemovedPath(now)
     IN IF outcome \in WrittenOutcomes
          THEN /\ files' = files \cup {imagePath}
               /\ paths' = Append(paths, imagePath)
          ELSE UNCHANGED << files, paths >>
  /\ UNCHANGED << now, pipelineVars, searchVars, auxVars >>

\* downloadProductImage's direct download: name the file, create the
\* directory, download into it, return the path (null when that fails).
persistDownload(outcome) ==
  /\ Len(paths) < MaxPersisted
  /\ LET filePath == ProductPath(now)
     IN IF outcome \in DownloadedOutcomes
          THEN /\ files' = files \cup {filePath}
               /\ paths' = Append(paths, filePath)
          ELSE UNCHANGED << files, paths >>
  /\ UNCHANGED << now, pipelineVars, searchVars, auxVars >>

PersistNext ==
  \/ Tick
  \/ ClockSetBack
  \/ \E o \in WriteOutcomes : persistBackgroundRemoved(o)
  \/ \E o \in DownloadOutcomes : persistDownload(o)

PersistSpec == Init /\ [][PersistNext]_vars

(***************************************************************************)
(* searchProductOnLookFantastic (part_007).  The search page is abstracted *)
(* to its href attributes in document order.  A link is a base (empty for a *)
(* relative link) and the path segments after it, so that                  *)
(* "/brand/products/a" is [base |-> "", segs |-> <<"brand","products","a">>]; *)
(* anchor tells whether the attribute stands in an <a ...> tag.            *)
(***************************************************************************)
\* Most links on a search page.
MaxLinks == 2

LookFantastic == "https://www.lookfantastic.com"
Href(base, segs) == [base |-> base, segs |-> segs]
Hrefs ==
  { Href("", << "brand", "products", "a" >>),
    Href("", << "products", "b" >>),
    Href(LookFantastic, << "products", "c" >>),
    Href("https://www.example.com", << "x", "products", "d" >>),
    Href("", << "help", "contact" >>) }
Links == [href : Hrefs, anchor : BOOLEAN]
SearchPages ==
  [status : {"204", "request failed"}, links : {<< >>}]
    \cup [status : {"200"}, links : UNION { [1..n -> Links] : n \in 0..MaxLinks }]

\* The link holds "/products/" with the segment "products" at position k or
\* later.
HasProductsFrom(href, k) ==
  \E j \in k..(Len(href.segs) - 1) : href.segs[j] = "products"

\* /<a\s+[^>]*href="([^"]*\/products\/[^"]*)"[^>]*>/gi
productBlockRegex(link) == link.anchor /\ HasProductsFrom(link.href, 1)
\* /href="(\/[^"]*\/products\/[^"]*)"/gi
productItemRegex(link) == link.href.base = "" /\ HasProductsFrom(link.href, 2)
\* /href="(https:\/\/www\.lookfantastic\.com[^"]*\/products\/[^"]*)"/gi
directProductRegex(link) ==
  link.href.base = LookFantastic /\ HasProductsFrom(link.href, 1)

\* while ((match = regex.exec(html)) !== null) productUrls.push(match[1])
\* where matching is the set of links the pattern matches.
Matches(matching, links) ==
  LET hits == SelectSeq(links, LAMBDA link : link \in matching)
  IN [k \in 1..Len(hits) |-> hits[k].href]

\* Variant: of equal links the last one is kept.
RECURSIVE Dedupe_KeepLast(_)
Dedupe_KeepLast(list) ==
  IF list = << >> THEN << >>
  ELSE IF \E k \in 2..Len(list) : list[k] = Head(list)
         THEN Dedupe_KeepLast(Tail(list))
         ELSE << Head(list) >> \o Dedupe_KeepLast(Tail(list))

\* Array.from(new Set(productUrls)): the first of equal links is kept.
RECURSIVE Dedupe(_)
Dedupe(list) ==
  IF list = << >> THEN << >>
  ELSE LET last == list[Len(list)]
       IN IF \E k \in 1..(Len(list) - 1) : list[k] = last
            THEN Dedupe(SubSeq(list, 1, Len(list) - 1))
            ELSE Append(Dedupe(SubSeq(list, 1, Len(list) - 1)), last)

\* url.startsWith('http') ? url : `https://www.lookfantastic.com${url}`
Absolute(url) == IF url.base # "" THEN url ELSE [url EXCEPT !.base = LookFantastic]

Null == [base |-> "null", segs |-> << >>]

\* The function from the answer to the GET on; a status outside 2xx makes
\* axios reject, which the catch turns into null.
searchProductOnLookFantastic(page) ==
  IF page.status # "200" THEN Null
  ELSE LET found == Matches({l \in Links : productBlockRegex(l)}, page.links)
                      \o Matches({l \in Links : productItemRegex(l)}, page.links)
                      \o Matches({l \in Links : directProductRegex(l)}, page.links)
           unique == Dedupe(found)
           productUrls == [k \in 1..Len(unique) |-> Absolute(unique[k])]
       IN IF Len(productUrls) > 0 THEN productUrls[1] ELSE Null

\* One call: the GET is answered and the function returns.
SearchProduct(page) ==
  /\ searchPage' = page
  /\ searchResult' = searchProductOnLookFantastic(page)
  /\ UNCHANGED << pipelineVars, persistVars, auxVars >>

SearchNext == \E page \in SearchPages : SearchProduct(page)

SearchSpec == Init /\ [][SearchNext]_vars

(***************************************************************************)
(* Image extractors of part_007: getProductImageFromLookFantastic and      *)
(* searchProductOnGoogle.  A page is abstracted to the https URLs in its   *)
(* markup, in document order, each with the place it stands in.  A URL is  *)
(* abstracted to what the patterns and filters test about it:              *)
(*   thcdn : the host is static.thcdn.com                                  *)
(*   large : the path starts with /images/large/                           *)
(*   ext   : the path ends in .jpg, .jpeg, .png or .webp                   *)
(*   words : which of 'icon', 'thumb', 'logo', 'small', 'google.com' the   *)
(*           URL holds up to the end of its path                           *)
(*   after : what follows the path ("" or a query string)                  *)
(***************************************************************************)
\* Most URLs on a page.
MaxImages == 2

ImageUrl(name, thcdn, large, ext, words, after) ==
  [name |-> name, thcdn |-> thcdn, large |-> large, ext |-> ext,
   words |-> words, after |-> after]
ImageUrls ==
  { ImageUrl("static.thcdn.com/images/large/a.jpg", TRUE, TRUE, TRUE, {}, ""),
    ImageUrl("static.thcdn.com/images/large/b.jpg", TRUE, TRUE, TRUE, {}, "?thumb=1"),
    ImageUrl("static.thcdn.com/images/large/icon/c.jpg", TRUE, TRUE, TRUE, {"icon"}, ""),
    ImageUrl("static.thcdn.com/images/thumb/a.jpg", TRUE, FALSE, TRUE, {"thumb"}, ""),
    ImageUrl("static.thcdn.com/design/logo.png", TRUE, FALSE, TRUE, {"logo"}, ""),
    ImageUrl("static.thcdn.com/productimg/small/d.webp", TRUE, FALSE, TRUE, {"small"}, ""),
    ImageUrl("static.thcdn.com/productimg/e.webp", TRUE, FALSE, TRUE, {}, ""),
    ImageUrl("www.google.com/images/branding.png", FALSE, FALSE, TRUE, {"google.com"}, ""),
    ImageUrl("cdn.example.com/f.jpeg", FALSE, FALSE, TRUE, {}, ""),
    ImageUrl("cdn.example.com/page.html", FALSE, FALSE, FALSE, {}, "") }
\* Where a URL stands: the src of an <img> whose class names the product
\* carousel, a data-src attribute, or any other double-quoted value.
Places == {"carousel src", "data-src", "quoted"}
Images == [place : Places, url : ImageUrls]
ImagePages ==
  [status : {"204", "request failed"}, images : {<< >>}]
    \cup [status : {"200"}, images : UNION { [1..n -> Images] : n \in 0..MaxImages }]

\* url.includes(word), over the whole string.
Includes(url, word) ==
  word \in url.words \/ (word = "thumb" /\ url.after = "?thumb=1")

\* html.match(mainImageRegex): not global, so the first match only.
\* /<img[^>]*class="[^"]*athenaProductImageCarousel_image[^"]*"[^>]*src="([^"]+)"[^>]*>/i
mainImageRegex(images) ==
  LET hits == SelectSeq(images, LAMBDA image : image.place = "carousel src")
  IN IF hits = << >> THEN << >> ELSE << hits[1].url >>
\* /"(https:\/\/static\.thcdn\.com\/images\/large\/[^"]+)"/gi
highQualityRegex(image) == image.url.thcdn /\ image.url.large
\* /data-src="(https:\/\/[^"]*thcdn\.com[^"]*\.(jpg|jpeg|png|webp))"/gi
dataSrcRegex(image) ==
  image.place = "data-src" /\ image.url.thcdn /\ image.url.ext /\ image.url.after = ""
\* /"(https:\/\/[^"]*thcdn\.com[^"]*\.(jpg|jpeg|png|webp))"/gi
anyImageRegex(image) == image.url.thcdn /\ image.url.ext /\ image.url.after = ""

\* while ((match = regex.exec(html)) !== null) img_urls.push(match[1])
\* where matching is the set of occurrences the pattern matches.
ImageMatches(matching, images) ==
  LET hits == SelectSeq(images, LAMBDA image : image \in matching)
  IN [k \in 1..Len(hits) |-> hits[k].url]

\* Variant: logos pass the filter.
IsProductImage_LogosPass(url) == ~Includes(url, "icon") /\ ~Includes(url, "thumb")

\* !url.includes('icon') && !url.includes('thumb') && !url.includes('logo')
IsProductImage(url) ==
  ~Includes(url, "icon") /\ ~Includes(url, "thumb") /\ ~Includes(url, "logo")

\* The function from the answer to the GET on; a status outside 2xx makes
\* axios reject, which the catch turns into null.
getProductImageFromLookFantastic(page) ==
  IF page.status # "200" THEN NoImageUrl
  ELSE LET img_urls == mainImageRegex(page.images)
                         \o ImageMatches({im \in Images : highQualityRegex(im)}, page.images)
                         \o ImageMatches({im \in Images : dataSrcRegex(im)}, page.images)
                         \o ImageMatches({im \in Images : anyImageRegex(im)}, page.images)
           filteredUrls == SelectSeq(Dedupe(img_urls), IsProductImage)
       IN IF Len(filteredUrls) > 0 THEN filteredUrls[1] ELSE NoImageUrl

\* /https:\/\/[^"']+\.(?:jpg|jpeg|png|webp)/g : the match ends with the last
\* image extension before the closing quote, so what follows the path is not
\* part of it.
GooglePattern(images) ==
  LET hits == SelectSeq(images, LAMBDA image : image.url.ext)
  IN [k \in 1..Len(hits) |-> [hits[k].url EXCEPT !.after = ""]]

\* Variant: Google's own images pass the filter.
IsFoundImage_GooglePass(url) ==
  ~(Includes(url, "icon") \/ Includes(url, "thumb") \/ Includes(url, "small"))

\* The filter of searchProductOnGoogle.
IsFoundImage(url) ==
  /\ ~(Includes(url, "icon") \/ Includes(url, "thumb") \/ Includes(url, "small"))
  /\ ~Includes(url, "google.com")

searchProductOnGoogle(page) ==
  IF page.status # "200" THEN NoImageUrl
  ELSE LET matches == GooglePattern(page.images)
           filteredUrls == SelectSeq(matches, IsFoundImage)
       IN IF Len(filteredUrls) > 0 THEN filteredUrls[1] ELSE NoImageUrl

\* One call of either extractor: the GET is answered and the function returns.
\* The extractors keep no state, so one call is followed from the start.
ExtractFromLookFantastic ==
  /\ extractResult = NoExtract
  /\ \E page \in ImagePages :
       /\ extractPage' = page
       /\ extractResult' = [by |-> "getProductImageFromLookFantastic",
                            url |-> getProductImageFromLookFantastic(page)]
  /\ UNCHANGED << pipelineVars, persistVars, searchVars, parseVars, backendVars, restVars >>

ExtractFromGoogle ==
  /\ extractResult = NoExtract
  /\ \E page \in ImagePages :
       /\ extractPage' = page
       /\ extractResult' = [by |-> "searchProductOnGoogle",
                            url |-> searchProductOnGoogle(page)]
  /\ UNCHANGED << pipelineVars, persistVars, searchVars, parseVars, backendVars, restVars >>

ExtractNext == ExtractFromLookFantastic \/ ExtractFromGoogle

ExtractSpec == Init /\ [][ExtractNext]_vars

(***************************************************************************)
(* parseGeminiResponse (skinAnalysis.ts).  The model's answer is a sequence *)
(* of tokens: "[" and "]", "prose" (any text that is not JSON and holds no *)
(* bracket), and JSON values: objects, told apart by their url and         *)
(* product_url members ("absent" when the member is missing), and a number. *)
(* Commas between values are taken as rightly placed.                       *)
(***************************************************************************)
\* Longest answer, in tokens.
MaxText == 4

JsonObject(url, product_url) ==
  [kind |-> "object", url |-> url, product_url |-> product_url]
JsonObjects ==
  { JsonObject(u, p) : u \in {"absent", "https://a"}, p \in {"absent", "https://b"} }
Token(kind) == [kind |-> kind, url |-> "absent", product_url |-> "absent"]
JsonNumber == Token("number")
\* A nested array, as an element of the parsed array.
JsonArray == Token("array")
Tokens == {Token("["), Token("]"), Token("prose")} \cup JsonObjects \cup {JsonNumber}
ResponseTexts == UNION { [1..n -> Tokens] : n \in 0..MaxText }

\* responseText.indexOf('['), responseText.lastIndexOf(']'): 0-based, -1 when
\* there is none.
indexOf(text, token) ==
  IF \E k \in 1..Len(text) : text[k] = token
    THEN (CHOOSE k \in 1..Len(text) :
            text[k] = token /\ \A j \in 1..(k - 1) : text[j] # token) - 1
    ELSE -1
lastIndexOf(text, token) ==
  IF \E k \in 1..Len(text) : text[k] = token
    THEN (CHOOSE k \in 1..Len(text) :
            text[k] = token /\ \A j \in (k + 1)..Len(text) : text[j] # token) - 1
    ELSE -1
\* responseText.substring(start, end)
substring(text, start, end) == SubSeq(text, start + 1, end)

\* How many arrays are open after token k.
Depth(text, k) ==
  Cardinality({j \in 1..k : text[j].kind = "["})
    - Cardinality({j \in 1..k : text[j].kind = "]"})
\* JSON.parse accepts the text: one array, closed by the last token, holding
\* values and arrays only.
IsJson(text) ==
  /\ Len(text) >= 2
  /\ \A k \in 1..Len(text) : text[k].kind # "prose"
  /\ \A k \in 1..(Len(text) - 1) : Depth(text, k) >= 1
  /\ Depth(text, Len(text)) = 0
\* JSON.parse(jsonStr) of an accepted text: the elements of the outer array.
RECURSIVE ElementsFrom(_, _)
ElementsFrom(text, k) ==
  IF k > Len(text) THEN << >>
  ELSE IF text[k].kind = "[" /\ Depth(text, k) = 2
         THEN << JsonArray >> \o ElementsFrom(text, k + 1)
  ELSE IF text[k].kind \notin {"[", "]"} /\ Depth(text, k) = 1
         THEN << text[k] >> \o ElementsFrom(text, k + 1)
  ELSE ElementsFrom(text, k + 1)
JSONparse(text) == ElementsFrom(text, 1)

\* 'url' in product: the in operator throws a TypeError on a number.
HasUrlMember(product) == product.url # "absent"

\* Variant: product_url is copied over a url that is present.
EnsureUrl_AlwaysCopy(product) ==
  IF product.product_url # "absent" THEN [product EXCEPT !.url = product.product_url]
  ELSE IF product.url = "absent" THEN [product EXCEPT !.url = "null"]
  ELSE product

\* The body of the for loop over the parsed elements.
EnsureUrl(product) ==
  IF product.product_url # "absent" /\ ~HasUrlMember(product)
    THEN [product EXCEPT !.url = product.product_url]
  ELSE IF ~HasUrlMember(product) THEN [product EXCEPT !.url = "null"]
  ELSE product

ParsedNull == [kind |-> "null", elements |-> << >>]
\* The whole function; every exception inside it ends in the catch, which
\* returns null.
parseGeminiResponse(text) ==
  LET jsonStart == indexOf(text, Token("["))
      jsonEnd == lastIndexOf(text, Token("]")) + 1
  IN IF jsonStart >= 0 /\ jsonEnd > jsonStart
       THEN LET jsonStr == substring(text, jsonStart, jsonEnd)
            IN IF ~IsJson(jsonStr) THEN ParsedNull
               ELSE LET products == JSONparse(jsonStr)
                    IN IF \E k \in 1..Len(products) :
                            products[k].kind = "number"
                         THEN ParsedNull
                         ELSE [kind |-> "array",
                               elements |-> [k \in 1..Len(products) |->
                                               EnsureUrl(products[k])]]
       ELSE ParsedNull

\* One call.  The function keeps no state, so one call is followed from the
\* start.
ParseResponse ==
  /\ parsed = NotCalled
  /\ \E text \in ResponseTexts :
       /\ responseText' = text
       /\ parsed' = parseGeminiResponse(text)
  /\ UNCHANGED << pipelineVars, persistVars, searchVars, extractVars, backendVars, restVars >>

ParseNext == ParseResponse

ParseSpec == Init /\ [][ParseNext]_vars

(***************************************************************************)
(* Bookmark controller of the backend (controllers/bookmarks.js), for one  *)
(* user.  A handler loads the user document (await User.findById), changes *)
(* its own copy and writes it back (await user.save()); other handlers run *)
(* during both awaits.  The User model is not part of the sources at hand: *)
(* save() is taken as Mongoose defines it, a $push of the pushed element   *)
(* or a $set of the reassigned array, and, as the schema may or may not    *)
(* turn on version checks, a save of a document that another save has      *)
(* changed since it was loaded either goes through or fails with a         *)
(* VersionError.                                                           *)
(***************************************************************************)
BookmarkKeys == { BookmarkKey("cleansers", 1001), BookmarkKey("cleansers", 1002) }
SaveOutcomes == {"saved", "VersionError"}

\* user.bookmarks.find(b => b.productId === productId && b.category === category)
existingBookmark(doc, key) == \E k \in 1..Len(doc) : doc[k] = key
\* user.bookmarks.filter(b => !(b.category === category && b.productId === productId))
WithoutBookmark(doc, key) == SelectSeq(doc, LAMBDA b : b # key)

\* POST /bookmarks arrives: the body is checked and findById is issued.
addBookmark(r, key, complete) ==
  /\ requests[r].pc = "idle"
  /\ requests' = [requests EXCEPT ![r] =
                    IF complete
                      THEN [NoRequest EXCEPT !.op = "add", !.key = key, !.pc = "awaitFind"]
                      ELSE [NoRequest EXCEPT !.op = "add", !.key = key, !.pc = "done",
                                             !.status = 400]]
  /\ UNCHANGED << bookmarks, docVersion, pipelineVars, persistVars, searchVars,
                  extractVars, parseVars, restVars >>

\* findById has answered: reject a bookmark the loaded document holds, else
\* push the new one and issue save.
addBookmarkFound(r) ==
  /\ requests[r].op = "add" /\ requests[r].pc = "awaitFind"
  /\ LET req == requests[r]
     IN requests' = [requests EXCEPT ![r] =
                       IF existingBookmark(bookmarks, req.key)
                         THEN [req EXCEPT !.pc = "done", !.status = 400, !.doc = bookmarks]
                         ELSE [req EXCEPT !.pc = "awaitSave",
                                          !.doc = Append(bookmarks, req.key),
                                          !.version = docVersion]]
  /\ UNCHANGED << bookmarks, docVersion, pipelineVars, persistVars, searchVars,
                  extractVars, parseVars, restVars >>

\* save has answered: the pushed element was appended to the stored array
\* (201), or the save failed on the version (500 from the error handler).
addBookmarkSaved(r, outcome) ==
  /\ requests[r].op = "add" /\ requests[r].pc = "awaitSave"
  /\ outcome = "VersionError" => requests[r].version # docVersion
  /\ IF outcome = "saved"
       THEN /\ bookmarks' = Append(bookmarks, requests[r].key)
            /\ docVersion' = docVersion + 1
            /\ requests' = [requests EXCEPT ![r].pc = "done", ![r].status = 201]
       ELSE /\ requests' = [requests EXCEPT ![r].pc = "done", ![r].status = 500]
            /\ UNCHANGED << bookmarks, docVersion >>
  /\ UNCHANGED << pipelineVars, persistVars, searchVars, extractVars, parseVars,
                  restVars >>

\* DELETE /bookmarks/:bookmarkId arrives with "category-productId"; findById
\* is issued.
removeBookmark(r, key) ==
  /\ requests[r].pc = "idle"
  /\ requests' = [requests EXCEPT ![r] =
                    [NoRequest EXCEPT !.op = "remove", !.key = key, !.pc = "awaitFind"]]
  /\ UNCHANGED << bookmarks, docVersion, pipelineVars, persistVars, searchVars,
                  extractVars, parseVars, restVars >>

\* findById has answered: 404 when the loaded document does not hold the
\* bookmark, else the filtered array is assigned and save is issued.
removeBookmarkFound(r) ==
  /\ requests[r].op = "remove" /\ requests[r].pc = "awaitFind"
  /\ LET req == requests[r]
     IN requests' = [requests EXCEPT ![r] =
                       IF ~existingBookmark(bookmarks, req.key)
                         THEN [req EXCEPT !.pc = "done", !.status = 404, !.doc = bookmarks]
                         ELSE [req EXCEPT !.pc = "awaitSave",
                                          !.doc = WithoutBookmark(bookmarks, req.key),
                                          !.version = docVersion]]
  /\ UNCHANGED << bookmarks, docVersion, pipelineVars, persistVars, searchVars,
                  extractVars, parseVars, restVars >>

\* save has answered: the stored array was replaced by the handler's (200),
\* or the save failed on the version (500).
removeBookmarkSaved(r, outcome) ==
  /\ requests[r].op = "remove" /\ requests[r].pc = "awaitSave"
  /\ outcome = "VersionError" => requests[r].version # docVersion
  /\ IF outcome = "saved"
       THEN /\ bookmarks' = requests[r].doc
            /\ docVersion' = docVersion + 1
            /\ requests' = [requests EXCEPT ![r].pc = "done", ![r].status = 200]
       ELSE /\ requests' = [requests EXCEPT ![r].pc = "done", ![r].status = 500]
            /\ UNCHANGED << bookmarks, docVersion >>
  /\ UNCHANGED << pipelineVars, persistVars, searchVars, extractVars, parseVars,
                  restVars >>

BackendNext ==
  \E r \in 1..MaxRequests :
    \/ \E key \in BookmarkKeys, complete \in BOOLEAN : addBookmark(r, key, complete)
    \/ addBookmarkFound(r)
    \/ \E o \in SaveOutcomes : addBookmarkSaved(r, o)
    \/ \E key \in BookmarkKeys : removeBookmark(r, key)
    \/ removeBookmarkFound(r)
    \/ \E o \in SaveOutcomes : removeBookmarkSaved(r, o)

BackendSpec == Init /\ [][BackendNext]_vars

(***************************************************************************)
(* The bookmark buttons of the results screens (ResultsScreen.tsx,        *)
(* HairResults.tsx).  Call c of the screen is request c of the backend.   *)
(* authService resolves with the body of a 2xx answer and throws on any   *)
(* other answer.                                                          *)
(***************************************************************************)
\* `${bookmark.category}-${bookmark.productId}` of every bookmark of the answer
bookmarksMap(doc) == { doc[k] : k \in 1..Len(doc) }

\* useEffect(() => { loadUserBookmarks() }, [user]): on mount and whenever the
\* user object changes; setIsLoading(true), then GET /bookmarks is issued.
loadUserBookmarks(c) ==
  /\ calls[c] = "idle"
  /\ calls' = [calls EXCEPT ![c] = "pending"]
  /\ isLoading' = TRUE
  /\ requests' = [requests EXCEPT ![c] = [NoRequest EXCEPT !.op = "get", !.pc = "awaitFind"]]
  /\ UNCHANGED << bookmarkedProducts, bookmarks, docVersion, pipelineVars, persistVars,
                  searchVars, extractVars, parseVars, serverVars, authVars >>

\* getBookmarks: findById has answered, the loaded array is sent with 200.
getBookmarks(r) ==
  /\ requests[r].op = "get" /\ requests[r].pc = "awaitFind"
  /\ requests' = [requests EXCEPT ![r].pc = "done", ![r].status = 200, ![r].doc = bookmarks]
  /\ UNCHANGED << clientVars, bookmarks, docVersion, pipelineVars, persistVars,
                  searchVars, extractVars, parseVars, serverVars, authVars >>

\* The GET has answered: the map is replaced by the keys of the answer, and
\* finally setIsLoading(false).
loadUserBookmarksAnswered(c) ==
  /\ calls[c] = "pending" /\ requests[c].op = "get" /\ requests[c].pc = "done"
  /\ calls' = [calls EXCEPT ![c] = "completed"]
  /\ bookmarkedProducts' = bookmarksMap(requests[c].doc)
  /\ isLoading' = FALSE
  /\ UNCHANGED << backendVars, pipelineVars, persistVars, searchVars, extractVars,
                  parseVars, serverVars, authVars >>

\* A tap on an enabled bookmark button (disabled={isLoading}):
\* setIsLoading(true), then the DELETE or the POST is issued according to the
\* local flag.
toggleBookmark(c, productId) ==
  /\ calls[c] = "idle" /\ ~isLoading
  /\ calls' = [calls EXCEPT ![c] = "pending"]
  /\ isLoading' = TRUE
  /\ requests' = [requests EXCEPT ![c] =
                    [NoRequest EXCEPT !.op = IF productId \in bookmarkedProducts
                                              THEN "remove" ELSE "add",
                                      !.key = productId, !.pc = "awaitFind"]]
  /\ UNCHANGED << bookmarkedProducts, bookmarks, docVersion, pipelineVars, persistVars,
                  searchVars, extractVars, parseVars, serverVars, authVars >>

\* The DELETE or the POST has answered: on 2xx the local flag is deleted or
\* set; on any other answer the catch leaves it; finally setIsLoading(false).
toggleBookmarkAnswered(c) ==
  /\ calls[c] = "pending" /\ requests[c].op \in {"add", "remove"} /\ requests[c].pc = "done"
  /\ calls' = [calls EXCEPT ![c] = "completed"]
  /\ bookmarkedProducts' =
       IF requests[c].status \notin {200, 201} THEN bookmarkedProducts
       ELSE IF requests[c].op = "remove" THEN bookmarkedProducts \ {requests[c].key}
       ELSE bookmarkedProducts \cup {requests[c].key}
  /\ isLoading' = FALSE
  /\ UNCHANGED << backendVars, pipelineVars, persistVars, searchVars, extractVars,
                  parseVars, serverVars, authVars >>

ClientNext ==
  \E c \in 1..MaxRequests :
    \/ loadUserBookmarks(c)
    \/ getBookmarks(c)
    \/ loadUserBookmarksAnswered(c)
    \/ \E productId \in BookmarkKeys : toggleBookmark(c, productId)
    \/ addBookmarkFound(c)
    \/ \E o \in SaveOutcomes : addBookmarkSaved(c, o)
    \/ removeBookmarkFound(c)
    \/ \E o \in SaveOutcomes : removeBookmarkSaved(c, o)
    \/ toggleBookmarkAnswered(c)

ClientSpec == Init /\ [][ClientNext]_vars

(***************************************************************************)
(* The backend server (part_003): the middleware chain in the order it is  *)
(* registered, and startServer.                                            *)
(***************************************************************************)
Methods == {"GET", "POST", "OPTIONS"}
Paths == {"/health", "/api/auth/bookmarks", "/uploads/profile.jpg", "/unknown"}
\* no body, a JSON body, a body express.json cannot parse
Bodies == {"none", "json", "malformed"}
HandlerStatuses == {200, 401}

\* Variant: a failed connection is retried by the next request.
ConnectionKnown_RetryFailed(db) == db = "true"

\* if (app.locals.dbConnected) ...; if (app.locals.dbConnected === false) ...
\* : the middleware connects only while the status is undefined.
ConnectionKnown(db) == db # "undefined"

\* The status the database middleware leaves in app.locals.dbConnected.
ConnectionAfter(db, up) ==
  IF ConnectionKnown(db) THEN db ELSE IF up THEN "true" ELSE "false"

\* Whether the database middleware is reached by the request.
ReachesDatabaseMiddleware(req) ==
  /\ req.body # "malformed"
  /\ req.method # "OPTIONS"
  /\ ~(req.method = "GET" /\ req.path = "/health")

\* The part of the chain that answers the request and its status; db is the
\* connection status after the database middleware.
Answer(req, db, handlerStatus) ==
  IF req.body = "malformed" THEN [status |-> 400, by |-> "express.json"]
  ELSE IF req.method = "OPTIONS" THEN [status |-> 204, by |-> "cors"]
  ELSE IF req.method = "GET" /\ req.path = "/health"
    THEN [status |-> 200, by |-> "health"]
  ELSE IF req.path # "/health" /\ db # "true"
    THEN [status |-> 503, by |-> "database"]
  ELSE IF req.method = "GET" /\ req.path = "/uploads/profile.jpg"
    THEN [status |-> 200, by |-> "static"]
  ELSE IF req.path = "/api/auth/bookmarks"
    THEN [status |-> handlerStatus, by |-> "route"]
  ELSE [status |-> 404, by |-> "notFound"]

\* startServer: await connectDB(), app.locals.dbConnected = dbConnected,
\* app.listen.
startServer ==
  /\ ~server.listening
  /\ server' = [server EXCEPT !.dbConnected = IF server.dbUp THEN "true" ELSE "false",
                               !.connects = @ + 1,
                               !.listening = TRUE]
  /\ UNCHANGED << pipelineVars, persistVars, searchVars, extractVars, parseVars,
                  backendVars, clientVars, authVars >>

\* One request runs down the chain.
HandleRequest(req, handlerStatus) ==
  /\ server.listening
  /\ LET connecting == ReachesDatabaseMiddleware(req) /\ req.path # "/health"
         db == IF connecting THEN ConnectionAfter(server.dbConnected, server.dbUp)
               ELSE server.dbConnected
         answer == Answer(req, db, handlerStatus)
     IN server' = [server EXCEPT
                     !.dbConnected = db,
                     !.connects = IF connecting /\ ~ConnectionKnown(server.dbConnected)
                                    THEN @ + 1 ELSE @,
                     !.response = [method |-> req.method, path |-> req.path,
                                   body |-> req.body, db |-> server.dbConnected,
                                   status |-> answer.status, by |-> answer.by]]
  /\ UNCHANGED << pipelineVars, persistVars, searchVars, extractVars, parseVars,
                  backendVars, clientVars, authVars >>

\* MongoDB becomes reachable or unreachable.
DatabaseChanges ==
  /\ server' = [server EXCEPT !.dbUp = ~@]
  /\ UNCHANGED << pipelineVars, persistVars, searchVars, extractVars, parseVars,
                  backendVars, clientVars, authVars >>

ServerNext ==
  \/ startServer
  \/ \E method \in Methods, path \in Paths, body \in Bodies, handlerStatus \in HandlerStatuses :
        HandleRequest([method |-> method, path |-> path, body |-> body], handlerStatus)
  \/ DatabaseChanges

ServerSpec == Init /\ [][ServerNext]_vars

(***************************************************************************)
(* AuthContext (AuthContext.tsx) over authService (api.ts).  An            *)
(* AsyncStorage call takes effect when it is issued and resolves or        *)
(* rejects later; Navigation shows a spinner instead of the screens while  *)
(* isLoading, so login and logout start only while it is false.            *)
(***************************************************************************)
\* An AsyncStorage call or a fetch resolves, or it rejects (for a fetch: or
\* answers with a status that is not ok).
CallOutcomes == {"ok", "failed"}

\* AsyncStorage.removeItem(TOKEN_KEY)
removeItem(stored, outcome) == IF outcome = "ok" THEN FALSE ELSE stored

\* checkUserStatus has returned: finally setIsLoading(false).
CheckDone(a, isAuth, fetched, removed) ==
  [a EXCEPT !.check = [pc |-> "idle", isAuth |-> "none", fetched |-> "none",
                       removed |-> "none"],
            !.event = [op |-> "checkUserStatus", isAuth |-> isAuth, fetched |-> fetched,
                       removed |-> removed],
            !.isLoading = FALSE]

\* userData is null: authService.logout is called and removes the token.
CheckLogsOut(a, removal) ==
  [a EXCEPT !.check = [@ EXCEPT !.pc = "logout", !.fetched = "failed", !.removed = removal],
            !.tokenStored = removeItem(@, removal)]

\* checkUserStatus is called, by the provider's effect on mount or by the
\* profile screen: setIsLoading(true), isAuthenticated reads the token.
checkUserStatus(outcome) ==
  /\ \/ auth.check.pc = "mount"
     \/ auth.check.pc = "idle" /\ auth.user # "null" /\ ~auth.isLoading
  /\ auth' = [auth EXCEPT
                !.isLoading = TRUE,
                !.check = [pc |-> "isAuthenticated",
                           isAuth |-> IF outcome = "failed" THEN "threw"
                                      ELSE IF auth.tokenStored THEN "yes" ELSE "no",
                           fetched |-> "none", removed |-> "none"]]
  /\ UNCHANGED << pipelineVars, persistVars, searchVars, extractVars, parseVars,
                  backendVars, clientVars, serverVars >>

\* isAuthenticated has answered: without a token, or when the read threw,
\* setUser(null) and finally; with one, getCurrentUser reads the token and
\* issues the /auth/me fetch, or returns null without a token.
checkIsAuthenticated(outcome, removal) ==
  /\ auth.check.pc = "isAuthenticated"
  /\ auth' = IF auth.check.isAuth # "yes"
               THEN CheckDone([auth EXCEPT !.user = "null"], auth.check.isAuth,
                              "none", "none")
             ELSE IF auth.tokenStored /\ outcome = "ok"
               THEN [auth EXCEPT !.check.pc = "fetch"]
             ELSE CheckLogsOut(auth, removal)
  /\ UNCHANGED << pipelineVars, persistVars, searchVars, extractVars, parseVars,
                  backendVars, clientVars, serverVars >>

\* The /auth/me fetch has answered: setUser(userData) and finally, or
\* getCurrentUser returns null and authService.logout removes the token.
checkFetched(outcome, removal) ==
  /\ auth.check.pc = "fetch"
  /\ auth' = IF outcome = "ok"
               THEN CheckDone([auth EXCEPT !.user = "user"], "yes", "ok", "none")
               ELSE CheckLogsOut(auth, removal)
  /\ UNCHANGED << pipelineVars, persistVars, searchVars, extractVars, parseVars,
                  backendVars, clientVars, serverVars >>

\* authService.logout has returned (true, or false from its catch):
\* setUser(null) and finally.
checkLoggedOut ==
  /\ auth.check.pc = "logout"
  /\ auth' = CheckDone([auth EXCEPT !.user = "null"], auth.check.isAuth,
                       auth.check.fetched, auth.check.removed)
  /\ UNCHANGED << pipelineVars, persistVars, searchVars, extractVars, parseVars,
                  backendVars, clientVars, serverVars >>

\* The profile screen calls logout: authService.logout removes the token.
logout(removal) ==
  /\ auth.logoutPc = "idle" /\ auth.user # "null" /\ ~auth.isLoading
  /\ auth' = [auth EXCEPT !.logoutPc = removal,
                          !.tokenStored = removeItem(@, removal)]
  /\ UNCHANGED << pipelineVars, persistVars, searchVars, extractVars, parseVars,
                  backendVars, clientVars, serverVars >>

\* authService.logout has returned (true, or false from its catch):
\* setUser(null).
logoutReturned ==
  /\ auth.logoutPc # "idle"
  /\ auth' = [auth EXCEPT !.logoutPc = "idle",
                          !.user = "null",
                          !.event = [op |-> "logout", isAuth |-> "none",
                                     fetched |-> "none", removed |-> auth.logoutPc]]
  /\ UNCHANGED << pipelineVars, persistVars, searchVars, extractVars, parseVars,
                  backendVars, clientVars, serverVars >>

\* The welcome screen calls login: the /auth/login fetch is issued.
login ==
  /\ auth.loginPc = "idle" /\ auth.user = "null" /\ ~auth.isLoading
  /\ auth' = [auth EXCEPT !.loginPc = "fetch"]
  /\ UNCHANGED << pipelineVars, persistVars, searchVars, extractVars, parseVars,
                  backendVars, clientVars, serverVars >>

\* The login fetch has answered: on failure login throws; on success the
\* token is stored.
loginFetched(outcome, storing) ==
  /\ auth.loginPc = "fetch"
  /\ auth' = IF outcome = "ok"
               THEN [auth EXCEPT !.loginPc = storing,
                                 !.tokenStored = IF storing = "ok" THEN TRUE ELSE @]
               ELSE [auth EXCEPT !.loginPc = "idle",
                                 !.event = [op |-> "login", isAuth |-> "none",
                                            fetched |-> "failed", removed |-> "none"]]
  /\ UNCHANGED << pipelineVars, persistVars, searchVars, extractVars, parseVars,
                  backendVars, clientVars, serverVars >>

\* AsyncStorage.setItem has answered: setUser(userData), or login throws.
loginStored ==
  /\ auth.loginPc \in CallOutcomes
  /\ auth' = [auth EXCEPT !.loginPc = "idle",
                          !.user = IF auth.loginPc = "ok" THEN "user" ELSE @,
                          !.event = [op |-> "login", isAuth |-> "none", fetched |-> "ok",
                                     removed |-> "none"]]
  /\ UNCHANGED << pipelineVars, persistVars, searchVars, extractVars, parseVars,
                  backendVars, clientVars, serverVars >>

AuthNext ==
  \/ \E o \in CallOutcomes : checkUserStatus(o)
  \/ \E o \in CallOutcomes, removal \in CallOutcomes : checkIsAuthenticated(o, removal)
  \/ \E o \in CallOutcomes, removal \in CallOutcomes : checkFetched(o, removal)
  \/ checkLoggedOut
  \/ \E removal \in CallOutcomes : logout(removal)
  \/ logoutReturned
  \/ login
  \/ \E o \in CallOutcomes, storing \in CallOutcomes : loginFetched(o, storing)
  \/ loginStored

AuthSpec == Init /\ [][AuthNext]_vars

(***************************************************************************)
(* Progress.  A step of the running batch is the continuation after an     *)
(* await; the event loop runs it once the awaited call has settled, and    *)
(* every request carries a timeout (15 s page GET, 60 s and 30 s POST, 10 s *)
(* web search), so a running batch is not left waiting forever.  Starting a *)
(* batch, taking its result and the health probe are under no obligation.  *)
(***************************************************************************)
BatchStep ==
  \/ SkinIterate
  \/ \E o \in ScrapeOutcomes : PageResponse(o)
  \/ \E o \in PostOutcomes : PostResponse(o)
  \/ \E o \in WriteOutcomes : WriteResponse(o)
  \/ \E o \in DownloadOutcomes : DownloadResponse(o)
  \/ HairIterate
  \/ \E o \in {"product found", "no product", "request failed"} : SearchResponse(o)
  \/ \E o \in ScrapeOutcomes : ProductPageResponse(o)
  \/ \E o \in ScrapeOutcomes : GoogleResponse(o)
  \/ \E o \in PostOutcomes : HairPostResponse(o)
  \/ Return

LiveSpec == Spec /\ WF_vars(BatchStep)

(***************************************************************************)
(* Properties                                                              *)
(***************************************************************************)
SkinOutput == result.cleansers \o result.moisturizers \o result.treatments
Output == IF mode = "skin" THEN SkinOutput ELSE processedRecommendations

IsStoredFile(localImage) ==
  localImage.store \in {BgRemovedFile(NoUrl).store, DownloadedFile(NoUrl).store}

\* The input element of the product being processed or just finished.
HasCurrent == formattedProduct.idx \in 1..Len(recommendations)
CurrentRec == recommendations[formattedProduct.idx]

\* A remove-background POST is issued in this step.
PostIssued == pc' \in {"awaitPost", "awaitHairPost"} /\ pc' # pc

\* removeImageBackground is called in this step.
RemoveBgCalled ==
  /\ mode = "skin" /\ pc \in {"loop", "awaitPage"}
  /\ pc' \in {"awaitPost", "awaitDownload"}

NullCount(n) == Cardinality({k \in 1..n : recommendations[k].isNull})

\* C1 as stated: every product either orchestrator emits has a localImage
\* that was retrieved and stored.
C1_Original ==
  \A k \in 1..Len(Output) : IsStoredFile(Output[k].localImage)

\* C1 amended: every product the skin orchestrator emits has a localImage that
\* names a file written or downloaded under products/, and a product whose
\* background removal and direct download both failed is absent; the hair
\* orchestrator's localImage is never a stored file: it is absent, the
\* service's base64 payload, or the remote image URL.
C1_SkinEmitsOnlyStoredImages ==
  /\ mode = "skin" =>
       /\ \A k \in 1..Len(SkinOutput) : IsStoredFile(SkinOutput[k].localImage)
       /\ t.status = "dropped" =>
            \A k \in 1..Len(SkinOutput) : SkinOutput[k].idx # formattedProduct.idx
       /\ t.status = "resolved" =>
            \E k \in 1..Len(SkinOutput) : SkinOutput[k] = formattedProduct
  /\ mode = "hair" =>
       \A k \in 1..Len(processedRecommendations) :
          processedRecommendations[k].localImage.store \in {"none", "base64", "remote"}

C1_Witness ==
  mode = "skin" /\ pc = "done" /\ droppedCount >= 1 /\ successCount >= 1

\* C2 as stated: no product is emitted with a placeholder image.
C2_Original ==
  \A k \in 1..Len(Output) : Output[k].image.kind # "placeholder"

\* C2 amended: a product without any image URL is not left out for that
\* reason.  Hair: it is emitted with image "placeholder" and no localImage, and
\* the output holds every non-null input element.  Skin: a via.placeholder.com
\* URL is substituted and handed to background removal like any other URL; the
\* product is emitted iff background removal or the direct download of that
\* placeholder succeeds.
C2_ProductWithoutUrlIsKept ==
  /\ mode = "hair" =>
       /\ Len(processedRecommendations) = (i - 1) - NullCount(i - 1)
       /\ (t.status = "emitted" /\ directImageUrl = NoUrl) =>
            /\ formattedProduct.image = PlaceholderString
            /\ formattedProduct.localImage = NoLocalImage
            /\ processedRecommendations[Len(processedRecommendations)] = formattedProduct
  /\ (mode = "skin" /\ HasCurrent /\ CurrentRec.image_url = NoUrl
        /\ CurrentRec.url = NoUrl /\ CurrentRec.product_url = NoUrl) =>
            /\ formattedProduct.image = PlaceholderUrl
            /\ t.pageGets = 0
            /\ t.bgCalls = 1 /\ t.bgArg = PlaceholderUrl
            /\ t.status = "resolved" =>
                 formattedProduct.localImage \in
                   {BgRemovedFile(PlaceholderUrl), DownloadedFile(PlaceholderUrl)}
            /\ t.status = "dropped" => t.downloads = 1

C2_Witness ==
  /\ mode = "hair" /\ pc = "done" /\ Len(recommendations) = 2
  /\ \E k \in 1..Len(processedRecommendations) :
        processedRecommendations[k].image = PlaceholderString
  /\ Len(processedRecommendations) = Len(recommendations)

\* C3: after removeImageBackground failed at connection level, and until a
\* health probe answers 200, every call of removeImageBackground returns null
\* without issuing the POST.
C3_TrippedCallsSkipPost ==
  [][ (tripped /\ RemoveBgCalled) =>
        (pc' = "awaitDownload" /\ t'.bg = "skipped" /\ t'.bgPosts = 0) ]_vars

C3_Witness ==
  tripped /\ mode = "skin" /\ pc = "awaitDownload" /\ t.bg = "skipped"

\* C4 as stated: in either orchestrator, after a connection-level failure of
\* a remove-background POST of this run, no POST is issued unless a probe has
\* succeeded in between.
C4_Original == [][ runFailed => ~PostIssued ]_vars

\* C4 amended: that holds of the skin orchestrator; the hair orchestrator has
\* no availability flag and issues the POST for every product for which an
\* image URL was found, whatever failed before.
C4_SkinRunSilencedHairNot ==
  [][ /\ (runFailed /\ mode = "skin") => ~PostIssued
      /\ (mode = "hair" /\ directImageUrl' # directImageUrl /\ directImageUrl' # NoUrl)
           => PostIssued ]_vars

C4_Witness ==
  /\ runFailed /\ mode = "skin" /\ i = 2
  /\ pc = "awaitDownload" /\ t.bgPosts = 0 /\ t.pageGets = 1

\* C5: an HTTP-level failure of the POST (non-200, or 200 without the success
\* flag) leaves the availability flag as it was and fails this call only.
C5_HttpFailureKeepsFlag ==
  [][ (mode = "skin" /\ pc = "awaitPost"
         /\ event'.op = "bgPost" /\ event'.out \in HttpFailures) =>
        /\ BACKGROUND_REMOVAL_AVAILABLE' = BACKGROUND_REMOVAL_AVAILABLE
        /\ pc' = "awaitDownload" /\ t'.bg = "failed" ]_vars

C5_Witness ==
  /\ event.op = "bgPost" /\ event.out = "HTTP 500" /\ mode = "skin"
  /\ BACKGROUND_REMOVAL_AVAILABLE /\ pc = "awaitDownload"

\* C6 as stated: the flag changes only when a background-removal call fails at
\* connection level (to unavailable) or a health probe succeeds (to available).
C6_Original ==
  [][ BACKGROUND_REMOVAL_AVAILABLE' # BACKGROUND_REMOVAL_AVAILABLE =>
        \/ /\ event'.op = "bgPost" /\ event'.out \in ConnectionErrors
           /\ ~BACKGROUND_REMOVAL_AVAILABLE'
        \/ /\ event'.op = "checkServerHealth" /\ event'.out = "200"
           /\ BACKGROUND_REMOVAL_AVAILABLE' ]_vars

\* C6 amended: the flag starts available and changes on three events only: a
\* connection-level failure of a background-removal call (to unavailable), a
\* health probe answering 200 (to available), and a health probe that fails
\* or answers another status (to unavailable).
C6_FlagChangesOnThreeEvents ==
  /\ BACKGROUND_REMOVAL_AVAILABLE = TRUE
  /\ [][ BACKGROUND_REMOVAL_AVAILABLE' # BACKGROUND_REMOVAL_AVAILABLE =>
           \/ /\ event'.op = "bgPost" /\ event'.out \in ConnectionErrors
              /\ mode = "skin" /\ ~BACKGROUND_REMOVAL_AVAILABLE'
           \/ /\ event'.op = "checkServerHealth" /\ event'.out = "200"
              /\ BACKGROUND_REMOVAL_AVAILABLE'
           \/ /\ event'.op = "checkServerHealth" /\ event'.out # "200"
              /\ ~BACKGROUND_REMOVAL_AVAILABLE' ]_vars

C6_Witness ==
  /\ event.op = "checkServerHealth" /\ event.out = "HTTP 500"
  /\ ~BACKGROUND_REMOVAL_AVAILABLE /\ ~tripped

\* C7 as stated: a product that carries a direct image URL causes no retailer
\* search and no product-page request, and that URL is what background removal
\* receives.
C7_Original ==
  (HasCurrent /\ CurrentRec.image_url.kind = "image") =>
     /\ t.searches = 0 /\ t.pages = 0 /\ t.pageGets = 0
     /\ t.bgCalls > 0 => t.bgArg = CurrentRec.image_url

\* C7 amended: in the skin orchestrator the image source is image_url, else
\* url, else product_url; when it does not contain 'lookfantastic.com' or ends
\* in an image extension no page request is issued and it is what background
\* removal receives, otherwise it is fetched as a product page (also when it
\* is an image).  The hair orchestrator ignores a supplied URL and always
\* issues the retailer search.
C7_SkinSkipsScrapeForDirectUrl ==
  /\ (mode = "skin" /\ HasCurrent) =>
       LET rec == CurrentRec
           src == IF rec.image_url # NoUrl THEN rec.image_url
                  ELSE IF rec.url # NoUrl THEN rec.url
                  ELSE rec.product_url
       IN src # NoUrl =>
            IF src.lf /\ ~src.ext
              THEN t.pageGets = 1
              ELSE /\ t.pageGets = 0
                   /\ t.bgCalls = 1 /\ t.bgArg = src
  /\ (mode = "hair" /\ HasCurrent) => (t.searches = 1 /\ t.pageGets = 0)

C7_Witness ==
  /\ mode = "skin" /\ HasCurrent /\ CurrentRec.image_url = CdnImageUrl
  /\ CurrentRec.url = LfPageUrl
  /\ pc = "awaitPost" /\ t.bgArg = CdnImageUrl /\ t.pageGets = 0

\* C8 as stated: when the retailer scrape yields no image URL the web image
\* search has been invoked exactly once.
C8_Original == t.scrape = "null" => t.googles = 1

\* C8 amended: that holds of the hair orchestrator (and without an empty
\* scrape it is not invoked); the skin orchestrator has no web image search:
\* after an empty or failed page scrape it hands the page URL itself to
\* background removal.
C8_HairFallsBackToWebSearchOnce ==
  /\ mode = "hair" => (t.googles = IF t.scrape = "null" THEN 1 ELSE 0)
  /\ mode = "skin" =>
       /\ t.googles = 0
       /\ t.scrape = "null" => (t.bgCalls = 1 /\ t.bgArg = formattedProduct.image
                                  /\ t.bgArg.kind # "placeholder")

C8_Witness ==
  mode = "hair" /\ pc = "awaitGoogle" /\ t.pages = 1 /\ t.scrape = "null"

\* C9: the number of products in the three buckets equals the success counter
\* and the number of products processed minus the number dropped; at return
\* every input product has been processed.
C9_OutputCountMatchesCounters ==
  mode = "skin" =>
    /\ Len(SkinOutput) = successCount
    /\ pc \in {"loop", "done"} => Len(SkinOutput) = productCount - droppedCount
    /\ pc = "done" => productCount = Len(recommendations)

C9_Witness ==
  /\ mode = "skin" /\ pc = "done" /\ Len(recommendations) = 2
  /\ droppedCount = 1 /\ Len(result.treatments) = 1

\* C10 as stated: whenever background removal failed the same URL is then
\* downloaded directly, and never when background removal succeeded.
C10_Original ==
  /\ (t.bg \in {"failed", "skipped"} /\ t.status # "pending") =>
       (t.downloads = 1 /\ t.dlArg = t.bgArg)
  /\ t.bg = "ok" => t.downloads = 0

\* C10 amended: that holds of the skin orchestrator, which emits the product
\* with the downloaded file as localImage when the download succeeds; the hair
\* orchestrator never downloads: when its POST fails the product is emitted
\* with localImage set to the remote image URL itself.
C10_SkinDownloadsAfterFailedRemoval ==
  /\ mode = "skin" =>
       /\ t.bg \in {"failed", "skipped"} => (t.downloads = 1 /\ t.dlArg = t.bgArg)
       /\ t.bg \in {"ok", "none"} => t.downloads = 0
       /\ (event.op = "download" /\ event.out = "downloaded") =>
            /\ t.status = "resolved"
            /\ formattedProduct.localImage = DownloadedFile(t.bgArg)
            /\ \E k \in 1..Len(SkinOutput) : SkinOutput[k] = formattedProduct
  /\ mode = "hair" =>
       /\ t.downloads = 0
       /\ t.bg = "failed" =>
            /\ t.status = "emitted"
            /\ formattedProduct.localImage = RemoteUrl(t.bgArg)

C10_Witness ==
  /\ mode = "skin" /\ pc = "loop" /\ t.bg = "failed"
  /\ event.op = "download" /\ event.out = "downloaded"
  /\ formattedProduct.localImage = DownloadedFile(t.bgArg)

\* Strictly increasing input positions along an output list.
InInputOrder(list) ==
  \A k \in 1..(Len(list) - 1) : list[k].idx < list[k + 1].idx

\* A request of the running batch is awaiting its answer.
InFlight == pc \notin {"idle", "loop", "done"}

\* C11: whatever fails while a product is resolved (request error, timeout,
\* non-200 answer, markup without a match, file-system error), the orchestrator
\* goes on to the next product: when it returns, the loop has passed the last
\* input element and every element is either in the output or was left out.
C11_FailuresNeverEndBatch ==
  /\ pc = "done" =>
       /\ i = Len(recommendations) + 1
       /\ Len(Output) + droppedCount = Len(recommendations)
  /\ (mode # "none" /\ pc = "loop") => Len(Output) + droppedCount = i - 1
  /\ InFlight => (i \in 1..Len(recommendations) /\ Len(Output) + droppedCount = i - 1)

C11_Witness ==
  /\ mode = "skin" /\ pc = "done" /\ Len(recommendations) = 2
  /\ droppedCount = 1 /\ Len(SkinOutput) = 1 /\ SkinOutput[1].idx = 2

\* C13: products are processed one at a time in input order: a request in
\* flight belongs to product i and every earlier product is already in the
\* output or left out; each output list keeps the input order.
C13_OneProductAtATimeInOrder ==
  /\ InInputOrder(result.cleansers) /\ InInputOrder(result.moisturizers)
  /\ InInputOrder(result.treatments) /\ InInputOrder(processedRecommendations)
  /\ \A k \in 1..Len(Output) : Output[k].idx < i
  /\ InFlight =>
       /\ formattedProduct.idx = i /\ t.status = "pending"
       /\ Len(Output) + droppedCount = i - 1
  /\ (mode # "none" /\ t.status \in {"resolved", "emitted"}) =>
       formattedProduct.idx = i - 1

C13_Witness ==
  /\ mode = "hair" /\ pc = "awaitGoogle" /\ i = 2
  /\ Len(processedRecommendations) = 1 /\ processedRecommendations[1].idx = 1

\* C14: nothing is retried: for one product the product-page GET, the retailer
\* search, the retailer product-page fetch, the web image search, the
\* remove-background POST and the direct download are each issued at most
\* once, whatever their outcome.
C14_EachRequestAtMostOnce ==
  /\ t.pageGets <= 1 /\ t.searches <= 1 /\ t.pages <= 1
  /\ t.googles <= 1 /\ t.bgPosts <= 1 /\ t.downloads <= 1
  /\ t.bgCalls <= 1

C14_Witness ==
  /\ mode = "skin" /\ t.status = "dropped"
  /\ t.pageGets = 1 /\ t.bgPosts = 1 /\ t.downloads = 1

\* C19: the hair module's web image search is issued only in the step in
\* which the retailer scrape of that product ended without an image URL (no
\* product link, no image on the product page, or a failed request), and never
\* for a product whose scrape returned an image URL.
C19_WebSearchOnlyAfterEmptyScrape ==
  [][ /\ t'.googles > t.googles =>
           /\ mode = "hair" /\ pc \in {"awaitSearch", "awaitProductPage"}
           /\ pc' = "awaitGoogle"
           /\ t.scrape = "notInvoked" /\ t'.scrape = "null"
           /\ event'.out \in {"no product", "no image", "request failed"}
      /\ t'.scrape = "found" => t'.googles = 0 ]_vars

C19_Witness ==
  /\ mode = "hair" /\ pc = "awaitGoogle" /\ t.searches = 1 /\ t.pages = 0
  /\ t.googles = 1 /\ event.op = "lfSearch" /\ event.out = "no product"
\* C15: provided every awaited call settles, a started batch returns, with
\* every input product in exactly one terminal state (in the output, or left
\* out), and a product with a request in flight reaches its terminal state.
C15_BatchTerminates ==
  /\ (mode # "none") ~>
        (pc = "done" /\ Len(Output) + droppedCount = Len(recommendations))
  /\ InFlight ~> (t.status \in {"resolved", "emitted", "dropped"})

C15_Witness ==
  /\ mode = "hair" /\ pc = "done" /\ Len(recommendations) = 2
  /\ droppedCount = 1 /\ Len(processedRecommendations) = 1
  /\ processedRecommendations[1].idx = 2
\* C16 as stated: a product for which creating the products directory or
\* writing the image file failed is dropped.
C16_Original ==
  /\ (t.write = "failed" /\ t.status # "pending") => t.status = "dropped"
  /\ (event.op \in {"writeFile", "download"} /\ t.status # "pending"
        /\ event.out \notin {"written", "downloaded"}) => t.status = "dropped"

\* C16 amended: a failure to create the directory is ignored and the write or
\* download is made anyway; a failed write of the background-removed payload
\* makes removeImageBackground return null, and the same URL is then downloaded
\* directly; the product is dropped only when that download fails.  None of
\* these failures touches the availability flag, the input or the products
\* already in the output.
C16_PersistenceFailureFallsBack ==
  [][ /\ (pc = "awaitWrite" /\ event'.op = "writeFile") =>
           IF event'.out \in WrittenOutcomes
             THEN /\ t'.status = "resolved" /\ t'.downloads = 0
                  /\ formattedProduct'.localImage = BgRemovedFile(t.bgArg)
             ELSE /\ pc' = "awaitDownload" /\ t'.status = "pending"
                  /\ t'.write = "failed" /\ t'.downloads = 1 /\ t'.dlArg = t.bgArg
                  /\ result' = result /\ i' = i /\ droppedCount' = droppedCount
      /\ (pc = "awaitDownload" /\ event'.op = "download") =>
           IF event'.out \in DownloadedOutcomes
             THEN /\ t'.status = "resolved"
                  /\ formattedProduct'.localImage = DownloadedFile(t.bgArg)
             ELSE /\ t'.status = "dropped" /\ result' = result
                  /\ droppedCount' = droppedCount + 1
      /\ (pc \in {"awaitWrite", "awaitDownload"}
            /\ event'.op \in {"writeFile", "download"}) =>
           /\ BACKGROUND_REMOVAL_AVAILABLE' = BACKGROUND_REMOVAL_AVAILABLE
           /\ recommendations' = recommendations
           /\ i' \in {i, i + 1}
           /\ \A b \in {"cleansers", "moisturizers", "treatments"} :
                 \A k \in 1..Len(result[b]) : result'[b][k] = result[b][k] ]_vars

C16_Witness ==
  /\ mode = "skin" /\ t.write = "failed" /\ t.status = "resolved"
  /\ formattedProduct.localImage = DownloadedFile(t.bgArg)
  /\ \E k \in 1..Len(SkinOutput) : SkinOutput[k] = formattedProduct
\* C18 as stated: a localImage attached to an emitted product is the path of
\* a file written under products/ during that product's resolution, never a
\* remote URL or raw base64.
C18_Original ==
  /\ \A k \in 1..Len(Output) :
        Output[k].localImage # NoLocalImage => IsStoredFile(Output[k].localImage)
  /\ (t.status \in {"resolved", "emitted"}
        /\ formattedProduct.localImage # NoLocalImage) => t.file # "none"

\* C18 amended: in the skin orchestrator the localImage of an emitted product
\* is the path of a file written during that product's resolution, either the
\* bg_removed file holding the service's payload with its data-URI prefix
\* stripped, or the product file downloaded from the same URL.  The hair
\* orchestrator writes no file and strips nothing: its localImage, when
\* attached, is the service's base64 payload itself, or the remote image URL
\* when the POST failed.
C18_SkinLocalImageIsWrittenFile ==
  /\ mode = "skin" =>
       /\ \A k \in 1..Len(SkinOutput) :
             SkinOutput[k].localImage.store \notin {"none", "base64", "remote"}
       /\ t.status = "resolved" =>
            IF t.write = "ok"
              THEN /\ formattedProduct.localImage = BgRemovedFile(t.bgArg)
                   /\ t.payload \in Base64Images /\ t.file = RawBase64
                   /\ t.downloads = 0
              ELSE /\ formattedProduct.localImage = DownloadedFile(t.bgArg)
                   /\ t.file = "image bytes" /\ t.downloads = 1
       /\ t.status # "resolved" => t.file = "none"
  /\ mode = "hair" =>
       /\ t.file = "none" /\ t.write = "none"
       /\ t.status = "emitted" =>
            formattedProduct.localImage =
              IF t.bg = "ok" THEN Base64Payload(t.bgArg)
              ELSE IF t.bg = "failed" THEN RemoteUrl(t.bgArg)
              ELSE NoLocalImage
       /\ t.payload = "none"

C18_Witness ==
  /\ mode = "skin" /\ t.status = "resolved" /\ t.payload = DataUriImage
  /\ t.file = RawBase64 /\ formattedProduct.localImage = BgRemovedFile(t.bgArg)
C12_Original ==
  /\ \A a, b \in 1..Len(paths) : a < b => paths[a] # paths[b]
  /\ Cardinality(files) = Len(paths)
\* The first link of the page that a pattern matches.
FirstMatch(matching, links) ==
  links[CHOOSE k \in 1..Len(links) :
          links[k] \in matching /\ \A j \in 1..(k - 1) : links[j] \notin matching].href

AnyMatch(matching, links) == \E k \in 1..Len(links) : links[k] \in matching

\* C20: searchProductOnLookFantastic returns null exactly when the request
\* failed or none of the three patterns matches the page; otherwise it returns
\* the first candidate (first match of pattern 1, else of pattern 2, else of
\* pattern 3; removing duplicates does not change which is first), prefixed
\* with https://www.lookfantastic.com when it is relative.
C20_FirstCandidateOrNull ==
  searchPage.status # "none" =>
    LET links == searchPage.links
        pattern1 == {l \in Links : productBlockRegex(l)}
        pattern2 == {l \in Links : productItemRegex(l)}
        pattern3 == {l \in Links : directProductRegex(l)}
        matched == \/ AnyMatch(pattern1, links)
                   \/ AnyMatch(pattern2, links)
                   \/ AnyMatch(pattern3, links)
        first == IF AnyMatch(pattern1, links) THEN FirstMatch(pattern1, links)
                 ELSE IF AnyMatch(pattern2, links) THEN FirstMatch(pattern2, links)
                 ELSE FirstMatch(pattern3, links)
    IN /\ (searchResult = Null) <=> (searchPage.status # "200" \/ ~matched)
       /\ searchResult # Null =>
            /\ searchResult.segs = first.segs
            /\ searchResult.base = IF first.base = "" THEN LookFantastic ELSE first.base
            /\ searchResult.base # ""

C20_Witness ==
  /\ searchPage.status = "200" /\ Len(searchPage.links) = 2
  /\ productBlockRegex(searchPage.links[1]) /\ productItemRegex(searchPage.links[1])
  /\ productBlockRegex(searchPage.links[2]) /\ ~productItemRegex(searchPage.links[2])
  /\ searchResult = Absolute(searchPage.links[1].href)
  /\ searchResult.base = LookFantastic

\* The candidates of each extractor in extraction order: the captures of the
\* four patterns in turn, and the matches of the one pattern in document order.
LookFantasticCandidates(page) ==
  IF page.status # "200" THEN << >>
  ELSE mainImageRegex(page.images)
         \o ImageMatches({im \in Images : highQualityRegex(im)}, page.images)
         \o ImageMatches({im \in Images : dataSrcRegex(im)}, page.images)
         \o ImageMatches({im \in Images : anyImageRegex(im)}, page.images)
GoogleCandidates(page) ==
  IF page.status # "200" THEN << >> ELSE GooglePattern(page.images)
HoldsAny(url, bad) == \E word \in bad : Includes(url, word)
FirstPassing(candidates, bad) ==
  LET passing == {k \in 1..Len(candidates) : ~HoldsAny(candidates[k], bad)}
  IN IF passing = {} THEN NoImageUrl
     ELSE candidates[CHOOSE k \in passing : \A j \in passing : k <= j]

\* C21: an extractor returns the first candidate, in extraction order, that
\* holds none of the words its filter rejects, and null when there is none:
\* 'icon', 'thumb', 'logo' for getProductImageFromLookFantastic and 'icon',
\* 'thumb', 'small', 'google.com' for searchProductOnGoogle.
C21_FirstCandidatePassingFilter ==
  /\ extractResult.by = "getProductImageFromLookFantastic" =>
       /\ extractResult.url =
            FirstPassing(LookFantasticCandidates(extractPage), {"icon", "thumb", "logo"})
       /\ ~HoldsAny(extractResult.url, {"icon", "thumb", "logo"})
  /\ extractResult.by = "searchProductOnGoogle" =>
       /\ extractResult.url =
            FirstPassing(GoogleCandidates(extractPage),
                         {"icon", "thumb", "small", "google.com"})
       /\ ~HoldsAny(extractResult.url, {"icon", "thumb", "small", "google.com"})
\* The product page's first candidate is a logo and the second, a product
\* image, is returned.
C21_Witness ==
  /\ extractResult.by = "getProductImageFromLookFantastic"
  /\ Len(LookFantasticCandidates(extractPage)) >= 2
  /\ Includes(LookFantasticCandidates(extractPage)[1], "logo")
  /\ extractResult.url = LookFantasticCandidates(extractPage)[2]
  /\ extractResult.url # NoImageUrl

Buckets == {"cleansers", "moisturizers", "treatments"}
\* The places of the skin output (the three buckets one after the other)
\* that hold input product n.
PlacesOf(n) ==
  LET output == result.cleansers \o result.moisturizers \o result.treatments
  IN {k \in 1..Len(output) : output[k].idx = n}

\* C22: a skin product whose image was resolved stands in exactly one bucket,
\* the one its category selects by first match: 'clean' gives cleansers, else
\* 'moistur' or 'cream' gives moisturizers, else (also with no category)
\* treatments.  The hair flow fills no bucket: it returns one flat list.
C22_OneBucketByFirstMatch ==
  /\ mode = "skin" =>
       /\ \A n \in 1..Len(recommendations) : Cardinality(PlacesOf(n)) <= 1
       /\ \A bucket \in Buckets : \A k \in 1..Len(result[bucket]) :
            LET category == recommendations[result[bucket][k].idx].category
            IN bucket = IF category.clean THEN "cleansers"
                        ELSE IF category.moistur \/ category.cream THEN "moisturizers"
                        ELSE "treatments"
       /\ t.status = "resolved" => Cardinality(PlacesOf(formattedProduct.idx)) = 1
       /\ processedRecommendations = << >>
  /\ mode = "hair" =>
       /\ result = EmptyResult
       /\ \A k \in 1..Len(processedRecommendations) :
            processedRecommendations[k].bucket = "recommendations"
\* A cleansing cream was resolved and stands among the cleansers, after a
\* product without any of the words that stands among the treatments.
C22_Witness ==
  /\ mode = "skin" /\ pc = "done" /\ Len(recommendations) = 2
  /\ recommendations[1].category = Category(FALSE, FALSE, FALSE)
  /\ recommendations[2].category = Category(TRUE, FALSE, TRUE)
  /\ Len(result.treatments) = 1 /\ result.treatments[1].idx = 1
  /\ Len(result.cleansers) = 1 /\ result.cleansers[1].idx = 2
  /\ result.moisturizers = << >>

\* The text holds a '[' with a ']' somewhere after it.
HasBrackets(text) ==
  \E a, b \in 1..Len(text) : a < b /\ text[a].kind = "[" /\ text[b].kind = "]"
\* The text from the first '[' to the last ']'.
Bracketed(text) ==
  SubSeq(text, indexOf(text, Token("[")) + 1, lastIndexOf(text, Token("]")) + 1)

\* C23 as stated: null exactly when there is no '[' with a later ']' or the
\* bracketed text is not valid JSON; otherwise the parsed array, every element
\* of which has a url member.
C23_Original ==
  parsed # NotCalled =>
    IF ~HasBrackets(responseText) \/ ~IsJson(Bracketed(responseText))
      THEN parsed = ParsedNull
      ELSE /\ parsed.kind = "array"
           /\ Len(parsed.elements) = Len(JSONparse(Bracketed(responseText)))
           /\ \A k \in 1..Len(parsed.elements) : parsed.elements[k].url # "absent"

\* C23: parseGeminiResponse returns null when the text has no '[' with a later
\* ']', when the bracketed text is not valid JSON, or when an element of the
\* parsed array is a number (any value that is not an object or array);
\* otherwise it returns the parsed array, in which an element keeps the url it
\* has, and one without url gets its product_url, or null when it has none.
C23_NullOrArrayWithUrls ==
  parsed # NotCalled =>
    IF \/ ~HasBrackets(responseText)
       \/ ~IsJson(Bracketed(responseText))
       \/ \E k \in 1..Len(JSONparse(Bracketed(responseText))) :
            JSONparse(Bracketed(responseText))[k].kind = "number"
      THEN parsed = ParsedNull
      ELSE /\ parsed.kind = "array"
           /\ Len(parsed.elements) = Len(JSONparse(Bracketed(responseText)))
           /\ \A k \in 1..Len(parsed.elements) :
                LET product == JSONparse(Bracketed(responseText))[k]
                IN /\ parsed.elements[k].kind = product.kind
                   /\ parsed.elements[k].product_url = product.product_url
                   /\ parsed.elements[k].url =
                        IF product.url # "absent" THEN product.url
                        ELSE IF product.product_url # "absent" THEN product.product_url
                        ELSE "null"
\* An array of two objects was parsed: the first has both members and keeps
\* its url, the second has product_url only, which became its url.
C23_Witness ==
  /\ Len(responseText) = 4 /\ IsJson(responseText)
  /\ responseText[2] = JsonObject("https://a", "https://b")
  /\ responseText[3] = JsonObject("absent", "https://b")
  /\ parsed.kind = "array" /\ Len(parsed.elements) = 2
  /\ parsed.elements[1].url = "https://a"
  /\ parsed.elements[2].url = "https://b"

PairwiseDistinctIds(list) ==
  \A j, k \in 1..Len(list) : j # k => list[j].id # list[k].id

\* C24: in the skin output the ids are pairwise distinct and, within a bucket,
\* run base+1, base+2, ... in output order without gaps (base 1000 cleansers,
\* 2000 moisturizers, 3000 treatments) whichever products were dropped; in the
\* hair output the id of a product is 3000 plus its 0-based input position,
\* so these ids are pairwise distinct too.
C24_IdsDistinctAndGapless ==
  /\ mode = "skin" =>
       /\ PairwiseDistinctIds(SkinOutput)
       /\ \A k \in 1..Len(result.cleansers) : result.cleansers[k].id = 1000 + k
       /\ \A k \in 1..Len(result.moisturizers) : result.moisturizers[k].id = 2000 + k
       /\ \A k \in 1..Len(result.treatments) : result.treatments[k].id = 3000 + k
  /\ mode = "hair" =>
       /\ PairwiseDistinctIds(processedRecommendations)
       /\ \A k \in 1..Len(processedRecommendations) :
            processedRecommendations[k].id = 3000 + (processedRecommendations[k].idx - 1)
\* The first of two treatments was dropped and the second one, the only
\* product of the output, has id 3001.
C24_Witness ==
  /\ mode = "skin" /\ pc = "done" /\ Len(recommendations) = 2
  /\ droppedCount = 1 /\ result.cleansers = << >> /\ result.moisturizers = << >>
  /\ Len(result.treatments) = 1
  /\ result.treatments[1].idx = 2 /\ result.treatments[1].id = 3001

\* A skin batch is running and one of its background-removal POSTs failed at
\* connection level, with no successful probe since.
TrippedInRunningBatch ==
  mode = "skin" /\ pc \notin {"idle", "done"} /\ runFailed

\* C25 as stated: once a connection failure of a skin batch has set the flag
\* to unavailable, no step taken while that batch runs makes it available.
C25_Original == [][ TrippedInRunningBatch => ~BACKGROUND_REMOVAL_AVAILABLE' ]_vars

\* C25: once a connection failure of a skin batch has set the flag to
\* unavailable, a step taken while that batch runs makes it available exactly
\* when it is the completion of a health probe answered with HTTP 200; such a
\* probe may complete at any await of the batch.
C25_OnlyProbeResetsDuringBatch ==
  [][ TrippedInRunningBatch =>
        /\ ~BACKGROUND_REMOVAL_AVAILABLE
        /\ BACKGROUND_REMOVAL_AVAILABLE' <=>
             (event'.op = "checkServerHealth" /\ event'.out = "200") ]_vars
\* The POST of the product being processed was refused, and while its direct
\* download is awaited a probe has made the flag available again.
C25_Witness ==
  /\ mode = "skin" /\ pc = "awaitDownload" /\ t.refused
  /\ event.op = "checkServerHealth" /\ event.out = "200"
  /\ BACKGROUND_REMOVAL_AVAILABLE = TRUE

\* processGeminiRecommendations is entered in this step.
SkinBatchStarts == pc = "idle" /\ pc' # "idle" /\ mode' = "skin"
\* A completed probe leaves the flag equal to its outcome.
ProbeOverwritesFlag ==
  event'.op = "checkServerHealth" =>
    BACKGROUND_REMOVAL_AVAILABLE' = (event'.out = "200")

\* C26 as stated: every completed probe overwrites the flag with its outcome,
\* and a skin batch starts with the flag equal to the outcome of the probe
\* that LoadingScreen awaited before it.
C26_Original ==
  [][ /\ ProbeOverwritesFlag
      /\ SkinBatchStarts =>
           /\ healthAwaited \in HealthOutcomes
           /\ BACKGROUND_REMOVAL_AVAILABLE' = (healthAwaited = "200") ]_vars

\* C26: every completed probe overwrites the flag with its outcome (available
\* iff HTTP 200), and every skin batch started from LoadingScreen follows a
\* probe that LoadingScreen awaited; the flag at the start of the batch equals
\* the outcome of the probe that completed last before it, which is the
\* awaited one unless another probe completed in between.
C26_FlagAtStartIsLastProbe ==
  [][ /\ ProbeOverwritesFlag
      /\ SkinBatchStarts =>
           /\ healthAwaited \in HealthOutcomes
           /\ event.op = "checkServerHealth"
           /\ BACKGROUND_REMOVAL_AVAILABLE' = (event.out = "200") ]_vars
\* A skin batch has just started with the flag unavailable although the probe
\* awaited for it was answered with 200: another probe failed in between.
C26_Witness ==
  /\ mode = "skin" /\ pc = "loop" /\ i = 1
  /\ event.op = "processGeminiRecommendations"
  /\ healthAwaited = "200"
  /\ BACKGROUND_REMOVAL_AVAILABLE = FALSE

\* How often the stored array holds the bookmark.
TimesBookmarked(key) == Cardinality({k \in 1..Len(bookmarks) : bookmarks[k] = key})

\* C27 as stated: whatever add and remove requests were handled, and however
\* they interleaved, the stored array holds at most one entry per
\* (category, productId).
C27_Original == \A key \in BookmarkKeys : TimesBookmarked(key) <= 1

\* No call of the results screen is in flight and at least one has completed.
CallsCompleted ==
  /\ \A c \in 1..MaxRequests : calls[c] # "pending"
  /\ \E c \in 1..MaxRequests : calls[c] = "completed"

HandledWhileDisconnected == server.response.method # "none" /\ server.response.db = "false"

\* GET /health was answered 200.
HealthAlways200 ==
  (server.response.method = "GET" /\ server.response.path = "/health") => server.response.status = 200

\* GET /health was answered 200 unless the body parser rejected the request.
HealthParsed200 ==
  (server.response.method = "GET" /\ server.response.path = "/health")
    => server.response.status = IF server.response.body = "malformed" THEN 400 ELSE 200

\* A false app.locals.dbConnected stays false and connectDB is not called again.
StaysDisconnected ==
  [][server.dbConnected = "false" => (server'.dbConnected = "false" /\ server'.connects = server.connects)]_vars

\* C29 as stated: GET /health is answered 200 whatever the database state; a
\* false dbConnected stays false and no reconnection is attempted; and every
\* request for another path handled meanwhile is answered 503 without
\* reaching a route handler.
C29_Original ==
  /\ [](HealthAlways200)
  /\ StaysDisconnected
  /\ []((HandledWhileDisconnected /\ server.response.path # "/health")
          => (server.response.status = 503 /\ server.response.by # "route"))

\* C29 amended: as C29, but the 503 is the answer to the requests that reach
\* the database middleware; a request the body parser rejects or an OPTIONS
\* request is answered before it (4xx, 204), and none reaches a route handler
\* or the static files.
C29_503FromDatabaseMiddleware ==
  /\ [](HealthParsed200)
  /\ StaysDisconnected
  /\ []((HandledWhileDisconnected /\ server.response.path # "/health")
          => /\ server.response.by \notin {"route", "static", "notFound"}
             /\ (server.response.body # "malformed" /\ server.response.method # "OPTIONS")
                  => server.response.status = 503
             /\ server.response.body = "malformed" => server.response.status = 400
             /\ (server.response.body # "malformed" /\ server.response.method = "OPTIONS")
                  => server.response.status = 204)

\* checkUserStatus returns in this step.
CheckCompletes == auth.check.pc \notin {"mount", "idle"} /\ auth'.check.pc = "idle"
\* logout returns in this step.
LogoutCompletes == auth.logoutPc # "idle" /\ auth'.logoutPc = "idle"

\* C30 as stated: when checkUserStatus returns, isLoading is false, the user is
\* non-null only if a token is stored and the /auth/me fetch succeeded, and a
\* stored token whose fetch failed has been removed with the user null; when
\* logout returns the user is null and the token is removed.
C30_Original ==
  [][ /\ CheckCompletes =>
          /\ ~auth'.isLoading
          /\ auth'.user # "null" => (auth'.tokenStored /\ auth'.event.fetched = "ok")
          /\ (auth'.event.isAuth = "yes" /\ auth'.event.fetched # "ok")
               => (~auth'.tokenStored /\ auth'.user = "null")
      /\ LogoutCompletes => (auth'.user = "null" /\ ~auth'.tokenStored) ]_vars

\* A POST for a route was answered 503 while dbConnected was false although
\* MongoDB had become reachable.
C29_Witness ==
  /\ HandledWhileDisconnected /\ server.dbUp /\ server.dbConnected = "false"
  /\ server.response.method = "POST" /\ server.response.path = "/api/auth/bookmarks"
  /\ server.response.status = 503
====
